---- MODULE Spec2Model ----
(***************************************************************************)
(* Model of the Eco-City approval portal (src/App.tsx and the Airtable     *)
(* service): the remote approvals table, the list view's filter and        *)
(* multi-select state, the detail view's action forms and the single and   *)
(* bulk mutation workflows with their PATCH requests.                      *)
(*                                                                         *)
(* One asynchronous workflow (an async handler of App.tsx) is in flight at *)
(* a time; the synchronous UI events interleave with its await points,     *)
(* since the busy flag disables only the login and refresh buttons.        *)
(***************************************************************************)
EXTENDS Integers, Sequences, FiniteSets, TLC

\* ------------------------------------------------------------------------
\* Values
\* ------------------------------------------------------------------------

NULL == "null"
KEEP == "keep"

\* configured status values (constants.ts) and the literals of App.tsx
statusWaitingValue == "cfgWaiting"
statusSignedValue == "cfgSigned"
statusRejectedValue == "cfgRejected"
statusDelayedValue == "cfgDelayed"
LitWaiting == {"litWaiting"}
LitSigned == {"litSigned"}
LitRejected == {"litRejected1", "litRejected2"}
LitDelayed == {"litDelayed1", "litDelayed2", "litDelayed3"}

FilterTypes == {"WAITING", "APPROVED", "REJECTED", "DELAYED", "ALL"}
FilterButtons == {"WAITING", "DELAYED", "REJECTED"}
ListModes == {"CARDS", "TABLE"}
ActionTypes == {"APPROVE", "REJECT", "DELAY", "TRANSFER"}

\* ------------------------------------------------------------------------
\* The remote tables (Airtable): employees and the static approval fields
\* ------------------------------------------------------------------------

Users == {"u1", "u2"}
\* u2's employee record stores no password
Password == [u \in Users |-> IF u = "u1" THEN "pw1" ELSE ""]
EmployeeDept == [u \in Users |-> "d1"]
Emails == Users \cup {"nobody"}
PasswordInputs == {"pw1", "pw2"}

AllIds == {"a1", "a2", "a3", "a4"}
\* position of a record in a createdTime-descending listing
CreatedRank ==
  [i \in AllIds |-> CASE i = "a1" -> 1 [] i = "a2" -> 2 [] i = "a3" -> 3 [] OTHER -> 4]
\* a4 is an approval without a payment
PaymentLink == [i \in AllIds |-> IF i = "a4" THEN "" ELSE "pay1"]

ReasonTexts == {"", "r"}

\* the approval tables the store may hold when the page is opened
Rec(st, rej, del) ==
  [status |-> st, assignee |-> "u1", rej |-> rej, del |-> del, sig |-> "none",
   project |-> "", supplier |-> "", department |-> "d1",
   order |-> [t |-> "undefined", n |-> 0, s |-> <<>>], contractLink |-> "",
   milestone |-> [section |-> <<>>, text |-> <<>>, num |-> <<>>]]
StoreWaiting3 ==
  [i \in {"a1", "a2", "a3"} |-> Rec(statusWaitingValue, NULL, NULL)]
StoreMixed ==
  [i \in {"a1", "a2"} |-> IF i = "a1" THEN Rec(statusWaitingValue, NULL, NULL)
                                      ELSE Rec(statusRejectedValue, "r", NULL)]
\* ------------------------------------------------------------------------
\* Sequence helpers
\* ------------------------------------------------------------------------

Range(q) == {q[i] : i \in 1..Len(q)}

RECURSIVE FilterSeq(_, _)
\* Array.prototype.filter with the membership test given as a set
FilterSeq(q, keep) ==
  IF q = <<>> THEN <<>>
  ELSE IF Head(q) \in keep THEN <<Head(q)>> \o FilterSeq(Tail(q), keep)
       ELSE FilterSeq(Tail(q), keep)

RECURSIVE SortedIds(_)
\* the ids of a set in createdTime-descending order
SortedIds(S) ==
  IF S = {} THEN <<>>
  ELSE LET m == CHOOSE x \in S : \A y \in S : CreatedRank[x] <= CreatedRank[y]
       IN <<m>> \o SortedIds(S \ {m})

RECURSIVE Concat(_)
Concat(qq) == IF qq = <<>> THEN <<>> ELSE Head(qq) \o Concat(Tail(qq))

\* ------------------------------------------------------------------------
\* Derived list state (the useMemo blocks of App.tsx)
\* ------------------------------------------------------------------------

\* `!status` of JavaScript: a missing, null or empty status field
Falsy(status) == status = "" \/ status = NULL

IsSigned(status) == status = statusSignedValue \/ status \in LitSigned
IsWaiting(status) == status = statusWaitingValue \/ status \in LitWaiting
IsRejected(status) == status = statusRejectedValue \/ status \in LitRejected
IsDelayed(status) == status = statusDelayedValue \/ status \in LitDelayed

\* the predicate of relevantApprovals
RelevantRec(r, pf, sf) ==
  /\ ~Falsy(r.status)
  /\ ~IsSigned(r.status)
  /\ ~(pf # "" /\ r.project # pf)
  /\ ~(sf # "" /\ r.supplier # sf)

RelevantOf(apps, pf, sf) ==
  FilterSeq(apps, {r \in Range(apps) : RelevantRec(r, pf, sf)})

\* waitingCount, delayedCount, rejectedCount and totalCount
CountsOf(apps, pf, sf) ==
  LET rel == RelevantOf(apps, pf, sf)
      n(P(_)) == Cardinality({i \in 1..Len(rel) : P(rel[i].status)})
      W(st) == IsWaiting(st)
      R(st) == ~IsWaiting(st) /\ IsRejected(st)
      D(st) == ~IsWaiting(st) /\ ~IsRejected(st) /\ IsDelayed(st)
  IN [waitingCount |-> n(W), delayedCount |-> n(D), rejectedCount |-> n(R),
      totalCount |-> Len(rel)]

\* filteredApprovals without its check of the signed status
FilteredRecKeepSigned(r, flt, pf, sf) ==
  /\ ~Falsy(r.status)
  /\ ~(flt = "WAITING" /\ ~IsWaiting(r.status))
  /\ ~(flt = "REJECTED" /\ ~IsRejected(r.status))
  /\ ~(flt = "DELAYED" /\ ~IsDelayed(r.status))
  /\ ~(pf # "" /\ r.project # pf)
  /\ ~(sf # "" /\ r.supplier # sf)

\* the predicate of filteredApprovals
FilteredRec(r, flt, pf, sf) ==
  /\ ~Falsy(r.status)
  /\ ~IsSigned(r.status)
  /\ ~(flt = "WAITING" /\ ~IsWaiting(r.status))
  /\ ~(flt = "REJECTED" /\ ~IsRejected(r.status))
  /\ ~(flt = "DELAYED" /\ ~IsDelayed(r.status))
  /\ ~(pf # "" /\ r.project # pf)
  /\ ~(sf # "" /\ r.supplier # sf)

FilteredOf(apps, flt, pf, sf) ==
  FilterSeq(apps, {r \in Range(apps) : FilteredRec(r, flt, pf, sf)})

\* uniqueProjects / uniqueSuppliers: the options of the two filter selects
UniqueProjectsOf(apps) ==
  {r.project : r \in {x \in Range(apps) : ~Falsy(x.status) /\ x.project # ""}}
UniqueSuppliersOf(apps) ==
  {r.supplier : r \in {x \in Range(apps) : ~Falsy(x.status) /\ x.supplier # ""}}

\* ------------------------------------------------------------------------
\* State
\* ------------------------------------------------------------------------

VARIABLES
  remote,               \* the approvals table of the remote store
  user,                 \* signed-in user or NULL
  loginError,
  view,                 \* LOGIN / LIST / DETAIL
  approvals,            \* the local list of approval snapshots
  filter, projectFilter, supplierFilter, listMode,
  selectedIds,          \* the multi-select set
  bulkAction,
  selectedApproval,     \* snapshot shown in the detail view, or NoApproval
  activeAction, reasonText, transferList, selectedTransferUser,
  hasSignature,         \* SignaturePad: something was drawn
  loading,              \* the busy flag
  wf,                   \* the asynchronous handler in flight (or the last one)
  cleared,              \* history: ids the last event's selection reset dropped
  contracts,            \* the contracts table of the remote store
  paymentApprovals,     \* the sibling chain shown in the detail view
  approvalsMap,         \* payment id -> related approvals (list cards)
  linkedContract,       \* the contract shown in the detail view, or NoContract
  contractsMap,         \* record id / RecID -> contract (list view)
  payments,             \* the payments table of the remote store
  milestones,           \* the milestones table of the remote store
  linkedPayment,        \* the payment shown in the detail view, or NoPayment
  relatedPayments,      \* the other payments of the project and supplier
  pendingRelated,       \* fetchRelatedPayments calls not answered yet
  availableMilestones,  \* the milestone candidates of the open contract
  isEditingMilestone,
  selectedMilestoneId,
  loadedFor,            \* history: the user whose load filled approvals
  failedFetches,        \* history: the fetches of the last detail load that failed
  idFetch               \* a chunked id-list fetch of the service: its call and result

vars == <<remote, user, loginError, view, approvals, filter, projectFilter,
          supplierFilter, listMode, selectedIds, bulkAction, selectedApproval,
          activeAction, reasonText, transferList, selectedTransferUser,
          hasSignature, loading, wf, cleared, contracts, paymentApprovals,
          approvalsMap, linkedContract, contractsMap, payments, milestones,
          linkedPayment, relatedPayments, pendingRelated, availableMilestones,
          isEditingMilestone, selectedMilestoneId, loadedFor, failedFetches, idFetch>>

filterVars == <<filter, projectFilter, supplierFilter, listMode>>
formVars == <<activeAction, reasonText, transferList, selectedTransferUser>>
milestoneVars == <<availableMilestones, isEditingMilestone, selectedMilestoneId>>
paymentVars == <<payments, milestones, relatedPayments, pendingRelated, failedFetches>>
linkVars == <<idFetch, contracts, paymentApprovals, approvalsMap, linkedContract, contractsMap,
              linkedPayment, paymentVars, milestoneVars, loadedFor>>

filteredApprovals == FilteredOf(approvals, filter, projectFilter, supplierFilter)
counts == CountsOf(approvals, projectFilter, supplierFilter)
filteredIds == {r.id : r \in Range(filteredApprovals)}
approvalIds == {r.id : r \in Range(approvals)}

\* the value of selectedApproval when no approval is open
NoApproval ==
  [id |-> NULL, status |-> NULL, project |-> "", supplier |-> "", department |-> "",
   contractLink |-> "", milestone |-> [section |-> <<>>, text |-> <<>>, num |-> <<>>]]

\* a record as the store returns it
Snapshot(store, i) ==
  [id |-> i, status |-> store[i].status, project |-> store[i].project,
   supplier |-> store[i].supplier, department |-> store[i].department,
   contractLink |-> store[i].contractLink, milestone |-> store[i].milestone]

\* fetchUserApprovals: the user's records, newest first
fetchUserApprovals(store, u) ==
  LET mine == {i \in DOMAIN store : store[i].assignee = u}
      ids == SortedIds(mine)
  IN [k \in 1..Len(ids) |-> Snapshot(store, ids[k])]

\* fetchEmployeesByDepartment
fetchEmployeesByDepartment(dept) ==
  IF dept = "" THEN {} ELSE {u \in Users : EmployeeDept[u] = dept}

\* ------------------------------------------------------------------------
\* The order field and the sibling-approval chain
\* ------------------------------------------------------------------------

\* a raw field value: undefined, a number, a string (its characters) or an
\* array, of which only the first element matters
Undef == [t |-> "undefined", n |-> 0, s |-> <<>>]
Num(n) == [t |-> "number", n |-> n, s |-> <<>>]
Str(s) == [t |-> "string", n |-> 0, s |-> s]
ArrOfStr(s) == [t |-> "array_string", n |-> 0, s |-> s]
ArrOfNum(n) == [t |-> "array_number", n |-> n, s |-> <<>>]
ArrEmpty == [t |-> "array_empty", n |-> 0, s |-> <<>>]

Digits == <<"0", "1", "2", "3", "4", "5", "6", "7", "8", "9">>
IsDigit(c) == c \in Range(Digits)
DigitVal(c) == (CHOOSE k \in 1..10 : Digits[k] = c) - 1

RECURSIVE Decimal(_)
\* String(n) of a non-negative integer
Decimal(n) ==
  IF n < 10 THEN <<Digits[n + 1]>> ELSE Decimal(n \div 10) \o <<Digits[(n % 10) + 1]>>

RECURSIVE DropNonDigits(_)
DropNonDigits(str) ==
  IF str = <<>> \/ IsDigit(Head(str)) THEN str ELSE DropNonDigits(Tail(str))

RECURSIVE TakeDigits(_)
TakeDigits(str) ==
  IF str = <<>> \/ ~IsDigit(Head(str)) THEN <<>>
  ELSE <<Head(str)>> \o TakeDigits(Tail(str))

\* sVal.match(/\d+/): the first run of digits, or the empty match
Match(str) == TakeDigits(DropNonDigits(str))

RECURSIVE ParseDigits(_, _)
ParseDigits(run, acc) ==
  IF run = <<>> THEN acc ELSE ParseDigits(Tail(run), 10 * acc + DigitVal(Head(run)))

\* parseInt(match[0], 10)
parseInt(run) == ParseDigits(run, 0)

\* the sentinel of a value that holds no digits
NoOrder == 9999

\* the string extractOrderNumber searches: String(val[0]) of an array,
\* String(val || '') otherwise
StringOf(val) ==
  CASE val.t = "array_string" -> val.s
    [] val.t = "array_number" -> Decimal(val.n)
    [] val.t = "array_empty" -> <<"u", "n", "d", "e", "f", "i", "n", "e", "d">>
    [] val.t = "string" -> val.s
    [] OTHER -> <<>>

extractOrderNumber(val) ==
  IF val.t = "number" THEN val.n
  ELSE LET match == Match(StringOf(val))
       IN IF match = <<>> THEN NoOrder ELSE parseInt(match)

RECURSIVE InsertByOrder(_, _)
\* x goes behind every element whose number is not larger than its own
InsertByOrder(x, q) ==
  IF q = <<>> THEN <<x>>
  ELSE IF extractOrderNumber(Head(q).order) <= extractOrderNumber(x.order)
    THEN <<Head(q)>> \o InsertByOrder(x, Tail(q))
  ELSE <<x>> \o q

RECURSIVE SortByOrder(_)
\* Array.prototype.sort with the comparator numA - numB (a stable sort)
SortByOrder(q) ==
  IF q = <<>> THEN <<>>
  ELSE InsertByOrder(q[Len(q)], SortByOrder(SubSeq(q, 1, Len(q) - 1)))

\* a sibling approval as the chain shows it
Sibling(store, i) == [id |-> i, order |-> store[i].order]

\* the records of the approvals table whose payment link is one of pids, in
\* the order of the table
\* F(e) with e evaluated once
Once(F(_), e) == CHOOSE r \in {F(v) : v \in {e}} : TRUE

LinkedTo(store, pids) ==
  LET Rows(ids) == [k \in 1..Len(ids) |-> Sibling(store, ids[k])]
  IN Once(Rows, SortedIds({i \in DOMAIN store : PaymentLink[i] \in pids}))

\* fetchApprovalsByPaymentID: the chain of one payment, sorted by order
fetchApprovalsByPaymentID(store, paymentId) ==
  Once(SortByOrder, LinkedTo(store, {paymentId}))

\* fetchApprovalsByPaymentIDs: the chains of several payments, as they come
fetchApprovalsByPaymentIDs(store, paymentIds) == LinkedTo(store, paymentIds)

\* a lookup table keyed by strings
EmptyMap == <<>>
MapGet(m, k, default) == IF k \in DOMAIN m THEN m[k] ELSE default
MapPut(m, k, v) == [x \in DOMAIN m \cup {k} |-> IF x = k THEN v ELSE m[x]]

\* fetchData's appMap: the related approvals grouped by their payment link
GroupByPayment(related) ==
  LET Group(rel) ==
        [pid \in {PaymentLink[a.id] : a \in Range(rel)} \ {""} |->
           FilterSeq(rel, {a \in Range(rel) : PaymentLink[a.id] = pid})]
  IN Once(Group, related)

\* the distinct non-empty payment and contract references of a loaded list
PaymentIdsOf(data) == {PaymentLink[r.id] : r \in Range(data)} \ {""}
ContractIdsOf(data) == {r.contractLink : r \in Range(data)} \ {""}

\* approvalsMap after a load of data that found the store as it is
LoadedMap(store, data) ==
  GroupByPayment(fetchApprovalsByPaymentIDs(store, PaymentIdsOf(data)))

\* sortedRelated of a list card: the payment's entry of approvalsMap, sorted
sortedRelated(map, paymentId) == Once(SortByOrder, MapGet(map, paymentId, <<>>))

\* ------------------------------------------------------------------------
\* Contracts and their two reference forms
\* ------------------------------------------------------------------------

\* no contract resolved
NoContract == [id |-> NULL, recId |-> ""]

\* fetchContractsByIds: the contracts whose record id or RecID is among ids
fetchContractsByIds(table, ids) ==
  IF ids = {} THEN <<>>
  ELSE FilterSeq(table, {c \in Range(table) : c.id \in ids \/ c.recId \in ids})

\* fetchContract: the first contract whose RecID is the value
fetchContract(table, contractRecIdValue) ==
  LET found == FilterSeq(table, {c \in Range(table) : c.recId = contractRecIdValue})
  IN IF contractRecIdValue = "" \/ found = <<>> THEN NoContract ELSE found[1]

\* the chunk sizes of the id-list fetches
ApprovalsChunkSize == 20
PaymentsChunkSize == 20
ContractsChunkSize == 15

IdFetches == {"fetchApprovalsByPaymentIDs", "fetchPaymentsByIds", "fetchContractsByIds"}

chunkSize(fn) ==
  IF fn = "fetchApprovalsByPaymentIDs" THEN ApprovalsChunkSize
  ELSE IF fn = "fetchPaymentsByIds" THEN PaymentsChunkSize
  ELSE ContractsChunkSize

RECURSIVE ChunksOf(_, _)
\* the slices ids.slice(i, i + size) for i = 0, size, 2 * size, ...
ChunksOf(ids, size) ==
  IF ids = <<>> THEN <<>>
  ELSE IF Len(ids) <= size THEN <<ids>>
  ELSE <<SubSeq(ids, 1, size)>> \o ChunksOf(SubSeq(ids, size + 1, Len(ids)), size)

\* no id-list fetch has been called
NoIdFetch ==
  [fn |-> NULL, ids |-> <<>>, chunks |-> <<>>, allRecords |-> <<>>, pc |-> "none",
   failed |-> FALSE, error |-> FALSE]

RECURSIVE ContractsMapOf(_)
\* fetchData's cmap: each contract under its record id and, when it has one,
\* under its RecID, later contracts overwriting earlier entries
ContractsMapOf(list) ==
  IF list = <<>> THEN EmptyMap
  ELSE LET c == list[Len(list)]
           m == MapPut(ContractsMapOf(SubSeq(list, 1, Len(list) - 1)), c.id, c)
       IN IF c.recId # "" THEN MapPut(m, c.recId, c) ELSE m

\* ------------------------------------------------------------------------
\* Payments, milestones and their fetches
\* ------------------------------------------------------------------------

\* s(val): the display string of a raw field value
sOf(val) ==
  CASE val.t \in {"number", "array_number"} -> Decimal(val.n)
    [] val.t \in {"string", "array_string"} -> val.s
    [] OTHER -> <<>>

\* the section, text and number fields of a record that shows no milestone
NoMilestoneFields == [section |-> <<>>, text |-> <<>>, num |-> <<>>]

\* the payments of the store in the order of their budget rows
AllPayments == <<"pay1", "pay2">>

\* no payment resolved
NoPayment ==
  [id |-> NULL, project |-> "", supplier |-> "", milestoneLink |-> "",
   milestone |-> NoMilestoneFields]

\* a payment whose project and supplier are not filled in
PaymentsPlain ==
  [pid \in {"pay1"} |->
     [project |-> "", supplier |-> "", milestoneLink |-> "",
      milestone |-> NoMilestoneFields]]

\* a payment record as the store returns it
PaymentSnapshot(table, pid) ==
  [id |-> pid, project |-> table[pid].project, supplier |-> table[pid].supplier,
   milestoneLink |-> table[pid].milestoneLink, milestone |-> table[pid].milestone]

\* fetchPaymentDetails: the record of that id, or null
fetchPaymentDetails(table, paymentRecordId) ==
  IF paymentRecordId \in DOMAIN table THEN PaymentSnapshot(table, paymentRecordId)
  ELSE NoPayment

\* fetchRelatedPayments: the ids of the payments of a project and supplier
fetchRelatedPayments(table, project, supplier) ==
  IF project = "" THEN <<>>
  ELSE FilterSeq(AllPayments, {pid \in DOMAIN table :
                                 /\ table[pid].project = project
                                 /\ table[pid].supplier = supplier})

\* updateRecordFields on a payment: the milestone link is the one field sent
updateRecordFields(table, recordId, milestoneId) ==
  [table EXCEPT ![recordId].milestoneLink = milestoneId]

\* what find() yields when no candidate has the id
NoMilestone ==
  [id |-> "", contract |-> "", num |-> Undef, sec |-> Undef, secNum |-> Undef,
   text |-> <<>>]

\* fetchTableRecords with the search formula of the detail load: the
\* milestones that name the contract by its record id or by its RecID
fetchTableRecords(table, contract) ==
  FilterSeq(table, {m \in Range(table) : m.contract \in {contract.id, contract.recId}})

\* JavaScript truthiness of a raw field value
Truthy(val) ==
  \/ val.t = "number" /\ val.n # 0
  \/ val.t = "string" /\ val.s # <<>>
  \/ val.t \in {"array_string", "array_number", "array_empty"}

\* a JavaScript number: an integer or NaN
NaN == [nan |-> TRUE, n |-> 0]
Number(n) == [nan |-> FALSE, n |-> n]

RECURSIVE SkipSpaces(_)
SkipSpaces(str) == IF str # <<>> /\ Head(str) = " " THEN SkipSpaces(Tail(str)) ELSE str

\* parseFloat on the strings used here: the leading digits, NaN without any
parseFloat(str) ==
  LET run == TakeDigits(SkipSpaces(str))
  IN IF run = <<>> THEN NaN ELSE Number(parseInt(run))

\* the sentinel of a milestone without an ordering value
NoNumber == 999999

\* getNum of the milestone sort: the first truthy ordering field
getNum(r) ==
  LET v == IF Truthy(r.num) THEN r.num ELSE IF Truthy(r.sec) THEN r.sec ELSE r.secNum
  IN IF v.t = "number" THEN Number(v.n)
     ELSE IF Truthy(v) THEN parseFloat(sOf(v))
     ELSE Number(NoNumber)

RECURSIVE InsertByNum(_, _)
InsertByNum(x, q) ==
  IF q = <<>> THEN <<x>>
  ELSE IF getNum(Head(q)).n <= getNum(x).n THEN <<Head(q)>> \o InsertByNum(x, Tail(q))
  ELSE <<x>> \o q

RECURSIVE SortByNum(_)
SortByNum(q) ==
  IF q = <<>> THEN <<>>
  ELSE InsertByNum(q[Len(q)], SortByNum(SubSeq(q, 1, Len(q) - 1)))

\* the rearrangements of a list of distinct records
Perms(q) == {p \in [1..Len(q) -> Range(q)] : Range(p) = Range(q)}

\* Array.prototype.sort with the comparator getNum(a) - getNum(b): a stable
\* sort, and any order at all once the comparator yields NaN
SortOutcomes(q) ==
  IF \E m \in Range(q) : getNum(m).nan THEN Perms(q) ELSE {SortByNum(q)}

\* availableMilestones.find(m => m.id === selectedMilestoneId)
FindMilestone(list, id) ==
  IF \E k \in 1..Len(list) : list[k].id = id
    THEN list[CHOOSE k \in 1..Len(list) :
                /\ list[k].id = id
                /\ \A j \in 1..(k - 1) : list[j].id # id]
  ELSE NoMilestone

\* the section, text and number updateMilestone resolves from the chosen
\* record: a long section without a text is taken to be the text
Resolved(rec) ==
  LET sec0 == IF sOf(rec.secNum) # <<>> THEN sOf(rec.secNum) ELSE sOf(rec.sec)
      long == Len(sec0) > 15 /\ rec.text = <<>>
  IN [section |-> IF long THEN <<>> ELSE sec0,
      text |-> IF long THEN sec0 ELSE rec.text,
      num |-> sOf(rec.num)]

\* ------------------------------------------------------------------------
\* PATCH requests (updateApprovalStatus / updateApprovalAssignee)
\* ------------------------------------------------------------------------

\* a status PATCH that leaves its extra fields out
updateApprovalStatusOnly(i, status, rej, del, sig) ==
  [id |-> i, status |-> status, assignee |-> KEEP, rej |-> KEEP, del |-> KEEP, sig |-> KEEP]

\* body of updateApprovalStatus: the status plus the extra fields
updateApprovalStatus(i, status, rej, del, sig) ==
  [id |-> i, status |-> status, assignee |-> KEEP, rej |-> rej, del |-> del, sig |-> sig]

\* body of updateApprovalAssignee: the assignee field only
updateApprovalAssignee(i, emp) ==
  [id |-> i, status |-> KEEP, assignee |-> emp, rej |-> KEEP, del |-> KEEP, sig |-> KEEP]

\* the store after a partial-field PATCH
Apply(store, req) ==
  LET old == store[req.id]
      pick(new, cur) == IF new = KEEP THEN cur ELSE new
  IN [store EXCEPT ![req.id] =
        [old EXCEPT !.status = pick(req.status, old.status),
                    !.assignee = pick(req.assignee, old.assignee),
                    !.rej = pick(req.rej, old.rej),
                    !.del = pick(req.del, old.del),
                    !.sig = pick(req.sig, old.sig)]]

\* executeAction with the status values of Reject and Delay exchanged
ActionReqsSwapped(action, signatureUrl, i, reason) ==
  IF action = "APPROVE" /\ signatureUrl
    THEN <<updateApprovalStatus(i, statusSignedValue, NULL, NULL, "stamp")>>
  ELSE IF action = "REJECT"
    THEN <<updateApprovalStatus(i, statusDelayedValue, reason, NULL, KEEP)>>
  ELSE IF action = "DELAY"
    THEN <<updateApprovalStatus(i, statusRejectedValue, NULL, reason, KEEP)>>
  ELSE <<updateApprovalStatus(i, "", KEEP, KEEP, KEEP)>>

\* the PATCH requests executeAction sends for the armed action
ActionReqs(action, signatureUrl, i, reason) ==
  IF action = "APPROVE" /\ signatureUrl
    THEN <<updateApprovalStatus(i, statusSignedValue, NULL, NULL, "stamp")>>
  ELSE IF action = "REJECT"
    THEN <<updateApprovalStatus(i, statusRejectedValue, reason, NULL, KEEP)>>
  ELSE IF action = "DELAY"
    THEN <<updateApprovalStatus(i, statusDelayedValue, NULL, reason, KEEP)>>
  ELSE <<updateApprovalStatus(i, "", KEEP, KEEP, KEEP)>>

\* a transfer that resets the status but leaves the reason fields as they are
TransferReqsKeepReasons(i, target) ==
  <<updateApprovalAssignee(i, target),
    updateApprovalStatus(i, statusWaitingValue, KEEP, KEEP, KEEP)>>

\* the PATCH requests executeTransfer sends
TransferReqs(i, target) ==
  <<updateApprovalAssignee(i, target),
    updateApprovalStatus(i, statusWaitingValue, NULL, NULL, KEEP)>>

\* a bulk loop whose Reject branch leaves the status field out of its PATCH
BulkReqsRejectReasonOnly(action, i, reason, target) ==
  IF action = "APPROVE"
    THEN <<updateApprovalStatus(i, statusSignedValue, NULL, NULL, "stamp")>>
  ELSE IF action = "REJECT"
    THEN <<updateApprovalStatus(i, KEEP, reason, NULL, KEEP)>>
  ELSE IF action = "DELAY"
    THEN <<updateApprovalStatus(i, statusDelayedValue, NULL, reason, KEEP)>>
  ELSE IF action = "TRANSFER" /\ target # ""
    THEN <<updateApprovalAssignee(i, target),
           updateApprovalStatus(i, statusWaitingValue, NULL, NULL, KEEP)>>
  ELSE <<>>

\* the PATCH requests of one iteration of the bulk loop
BulkReqs(action, i, reason, target) ==
  IF action = "APPROVE"
    THEN <<updateApprovalStatus(i, statusSignedValue, NULL, NULL, "stamp")>>
  ELSE IF action = "REJECT"
    THEN <<updateApprovalStatus(i, statusRejectedValue, reason, NULL, KEEP)>>
  ELSE IF action = "DELAY"
    THEN <<updateApprovalStatus(i, statusDelayedValue, NULL, reason, KEEP)>>
  ELSE IF action = "TRANSFER" /\ target # ""
    THEN TransferReqs(i, target)
  ELSE <<>>

\* a loop that sends all its requests at once (Promise.all)
IssueAll(queue) == Len(queue)

\* how many requests of the queue are sent before the next await returns:
\* each PATCH is awaited before the next one is built
IssueCount(queue) == IF queue = <<>> THEN 0 ELSE 1

\* ------------------------------------------------------------------------
\* The workflow in flight
\* ------------------------------------------------------------------------

\* at most MaxOps asynchronous handlers are started in one run
MaxOps == 4

Idle ==
  [pc |-> "idle", kind |-> "none", user |-> NULL, action |-> NULL, recs |-> <<>>,
   queue |-> <<>>, outstanding |-> {}, done |-> <<>>, sig |-> FALSE,
   alerts |-> 0, outcome |-> "none", before |-> <<>>, arg |-> NULL, n |-> 0]

Free == wf.pc = "idle" /\ wf.n < MaxOps

\* a handler starts: its closure captures the signed-in user
Begin(kind, pc) ==
  [Idle EXCEPT !.pc = pc, !.kind = kind, !.user = user, !.before = remote,
               !.n = wf.n + 1]

\* a handler has returned: what is kept of it is its kind and action, the
\* records it was about, the requests that were committed, its outcome and the
\* number of alerts it raised
End(w, outcome) ==
  [Idle EXCEPT !.kind = w.kind, !.action = w.action, !.recs = w.recs,
               !.done = w.done, !.outcome = outcome, !.alerts = w.alerts,
               !.n = w.n]

\* the sync prefix of fetchData(u) entered from workflow w
EnterFetch(w) == [w EXCEPT !.pc = "fetch_approvals", !.queue = <<>>, !.outstanding = {}]

\* issue the next request(s) of the queue
Issue(w) ==
  LET n == IssueCount(w.queue)
  IN [w EXCEPT !.outstanding = @ \cup {w.queue[k] : k \in 1..n},
               !.queue = SubSeq(w.queue, n + 1, Len(w.queue))]

\* a loop that catches the failure inside its body and goes on
CatchAndContinue(w) ==
  LET v == [w EXCEPT !.alerts = @ + 1, !.outstanding = {}]
  IN IF v.queue = <<>> THEN End(v, "failed") ELSE Issue(v)

\* the catch block of a mutation handler: one alert, and the handler returns
CatchFailure(w) == End([w EXCEPT !.alerts = @ + 1], "failed")

\* start the PATCH phase of a mutation handler
StartPatching(w) ==
  IF w.queue = <<>> THEN EnterFetch(w) ELSE Issue([w EXCEPT !.pc = "patch"])

\* UI regions
ListUI == view = "LIST" /\ bulkAction = NULL
ModalUI == view = "LIST" /\ bulkAction # NULL
DetailUI == view = "DETAIL"
PadMounted == view = "DETAIL" /\ activeAction = "APPROVE"

\* a reset effect whose dependency list leaves out the list mode
SelectionAfterFilters(sel) ==
  IF <<filter, projectFilter, supplierFilter>>' # <<filter, projectFilter, supplierFilter>>
    THEN {} ELSE sel

\* the effect of line 429: a changed filter or list mode clears the selection
SelectionAfter(sel) == IF filterVars' # filterVars THEN {} ELSE sel

\* SignaturePad keeps its state only while it stays mounted
PadAfter(drawn) == IF PadMounted /\ PadMounted' THEN drawn ELSE FALSE

\* ------------------------------------------------------------------------
\* Initial state: the page has just been opened
\* ------------------------------------------------------------------------

InitUI ==
  /\ user = NULL
  /\ loginError = ""
  /\ view = "LOGIN"
  /\ approvals = <<>>
  /\ filter = "WAITING"
  /\ projectFilter = ""
  /\ supplierFilter = ""
  /\ listMode = "CARDS"
  /\ selectedIds = {}
  /\ bulkAction = NULL
  /\ selectedApproval = NoApproval
  /\ activeAction = NULL
  /\ reasonText = ""
  /\ transferList = {}
  /\ selectedTransferUser = ""
  /\ hasSignature = FALSE
  /\ loading = FALSE
  /\ wf = Idle
  /\ cleared = 0
  /\ paymentApprovals = <<>>
  /\ approvalsMap = EmptyMap
  /\ linkedContract = NoContract
  /\ contractsMap = EmptyMap
  /\ linkedPayment = NoPayment
  /\ relatedPayments = <<>>
  /\ pendingRelated = {}
  /\ availableMilestones = <<>>
  /\ isEditingMilestone = FALSE
  /\ selectedMilestoneId = ""
  /\ loadedFor = NULL
  /\ failedFetches = {}

\* a store without contracts or milestones
PlainTables ==
  /\ contracts = <<>> /\ payments = PaymentsPlain /\ milestones = <<>>
  /\ idFetch = NoIdFetch

\* the detail-view state of a session in which no approval has been opened
NothingOpened ==
  /\ linkedPayment = NoPayment
  /\ relatedPayments = <<>>
  /\ pendingRelated = {}
  /\ availableMilestones = <<>>
  /\ isEditingMilestone = FALSE
  /\ selectedMilestoneId = ""
  /\ loadedFor = "u1"
  /\ failedFetches = {}

Init == remote = StoreMixed /\ PlainTables /\ InitUI

\* a session on three waiting approvals: the user has logged in and refreshed
\* once, the load has finished and the list is shown
InitBulk ==
  /\ remote = StoreWaiting3
  /\ user = "u1"
  /\ loginError = ""
  /\ view = "LIST"
  /\ approvals = fetchUserApprovals(StoreWaiting3, "u1")
  /\ PlainTables
  /\ NothingOpened
  /\ paymentApprovals = <<>>
  /\ approvalsMap = LoadedMap(StoreWaiting3, approvals)
  /\ linkedContract = NoContract
  /\ contractsMap = EmptyMap
  /\ filter = "WAITING"
  /\ projectFilter = ""
  /\ supplierFilter = ""
  /\ listMode = "CARDS"
  /\ selectedIds = {}
  /\ bulkAction = NULL
  /\ selectedApproval = NoApproval
  /\ activeAction = NULL
  /\ reasonText = ""
  /\ transferList = {}
  /\ selectedTransferUser = ""
  /\ hasSignature = FALSE
  /\ loading = FALSE
  /\ wf = [End(Idle, "ok") EXCEPT !.kind = "refresh", !.n = 2]
  /\ cleared = 0

\* a loaded session of u1 on a given approvals table: the user has logged in
\* and refreshed once and the list is shown
SessionOn(store) ==
  /\ remote = store
  /\ user = "u1"
  /\ loginError = ""
  /\ view = "LIST"
  /\ approvals = fetchUserApprovals(store, "u1")
  /\ PlainTables
  /\ NothingOpened
  /\ paymentApprovals = <<>>
  /\ approvalsMap = LoadedMap(store, approvals)
  /\ linkedContract = NoContract
  /\ contractsMap = EmptyMap
  /\ filter = "WAITING"
  /\ projectFilter = ""
  /\ supplierFilter = ""
  /\ listMode = "CARDS"
  /\ selectedIds = {}
  /\ bulkAction = NULL
  /\ selectedApproval = NoApproval
  /\ activeAction = NULL
  /\ reasonText = ""
  /\ transferList = {}
  /\ selectedTransferUser = ""
  /\ hasSignature = FALSE
  /\ loading = FALSE
  /\ wf = [End(Idle, "ok") EXCEPT !.kind = "refresh", !.n = 2]
  /\ cleared = 0

\* two waiting approvals of different departments
StoreDepts ==
  [i \in {"a1", "a2"} |->
     IF i = "a1" THEN Rec(statusWaitingValue, NULL, NULL)
     ELSE [Rec(statusWaitingValue, NULL, NULL) EXCEPT !.department = "d2"]]

InitDept == SessionOn(StoreDepts)

\* the statuses, projects and suppliers of the records a load may return
MaxLen == 3
StatusInputs ==
  {"", NULL, statusWaitingValue, statusSignedValue, "litSigned",
   statusRejectedValue, "litDelayed1", "other"}
ProjectOf == [i \in AllIds |-> IF i \in {"a1", "a3"} THEN "p1" ELSE "p2"]
SupplierOf == [i \in AllIds |-> IF i = "a2" THEN "" ELSE "s1"]
ApprovalInputs ==
  UNION {LET ids == SortedIds(S)
         IN {[k \in 1..Len(ids) |->
                [id |-> ids[k], status |-> st[ids[k]], project |-> ProjectOf[ids[k]],
                 supplier |-> SupplierOf[ids[k]], department |-> "d1",
                 contractLink |-> "",
                 milestone |-> [section |-> <<>>, text |-> <<>>, num |-> <<>>]]] :
             st \in [S -> StatusInputs]} :
         S \in {T \in SUBSET AllIds : Cardinality(T) <= MaxLen}}

\* the list view over any loaded approval set and any status bucket
InitList ==
  /\ remote = StoreMixed
  /\ user = "u1"
  /\ loginError = ""
  /\ view = "LIST"
  /\ approvals \in ApprovalInputs
  /\ PlainTables
  /\ NothingOpened
  /\ paymentApprovals = <<>>
  /\ approvalsMap = LoadedMap(StoreMixed, approvals)
  /\ linkedContract = NoContract
  /\ contractsMap = EmptyMap
  /\ filter \in FilterTypes
  /\ projectFilter = ""
  /\ supplierFilter = ""
  /\ listMode = "CARDS"
  /\ selectedIds = {}
  /\ bulkAction = NULL
  /\ selectedApproval = NoApproval
  /\ activeAction = NULL
  /\ reasonText = ""
  /\ transferList = {}
  /\ selectedTransferUser = ""
  /\ hasSignature = FALSE
  /\ loading = FALSE
  /\ wf = [End(Idle, "ok") EXCEPT !.kind = "login", !.n = 1]
  /\ cleared = 0

\* ------------------------------------------------------------------------
\* Login, data load, logout
\* ------------------------------------------------------------------------

\* a login that never compares the passwords
PasswordIgnored(stored, entered) == TRUE

\* the password test of handleLogin: a record without a stored password
\* passes with any input
PasswordAccepted(stored, entered) == stored = "" \/ stored = entered

\* handleLogin up to its await of loginUser
HandleLogin(email, pw) ==
  /\ cleared' = 0
  /\ UNCHANGED linkVars
  /\ view = "LOGIN" /\ ~loading /\ Free
  /\ loginError' = ""
  /\ loading' = TRUE
  /\ wf' = [Begin("login", "login") EXCEPT !.arg = <<email, pw>>]
  /\ UNCHANGED <<remote, user, view, approvals, filterVars, selectedIds, bulkAction,
                 selectedApproval, formVars, hasSignature>>

\* loginUser answered (or failed); on success fetchData starts un-awaited and
\* the finally block clears the busy flag it has just set
LoginResp(ok) ==
  /\ cleared' = 0
  /\ UNCHANGED linkVars
  /\ wf.pc = "login"
  /\ LET email == wf.arg[1]
         pw == wf.arg[2]
     IN IF ~ok
          THEN /\ loginError' = "network"
               /\ wf' = End(wf, "failed")
               /\ UNCHANGED <<user, view>>
        ELSE IF email \notin Users
          THEN /\ loginError' = "notfound"
               /\ wf' = End(wf, "failed")
               /\ UNCHANGED <<user, view>>
        ELSE IF ~PasswordAccepted(Password[email], pw)
          THEN /\ loginError' = "password"
               /\ wf' = End(wf, "failed")
               /\ UNCHANGED <<user, view>>
        ELSE /\ user' = email
             /\ view' = "LIST"
             /\ wf' = EnterFetch([wf EXCEPT !.user = email])
             /\ UNCHANGED loginError
  /\ loading' = FALSE
  /\ UNCHANGED <<remote, approvals, filterVars, selectedIds, bulkAction,
                 selectedApproval, formVars>>
  /\ hasSignature' = PadAfter(hasSignature)

\* a fetchData whose finally block is missing
FinishNoFinally(kind) ==
  /\ loading' = loading
  /\ view' = IF kind \in {"action", "transfer"} THEN "LIST" ELSE view
  /\ selectedApproval' = IF kind \in {"action", "transfer"} THEN NoApproval ELSE selectedApproval
  /\ linkedContract' = IF kind \in {"action", "transfer"} THEN NoContract ELSE linkedContract
  /\ linkedPayment' = IF kind \in {"action", "transfer"} THEN NoPayment ELSE linkedPayment
  /\ selectedIds' = IF kind = "bulk" THEN {} ELSE selectedIds
  /\ bulkAction' = IF kind = "bulk" THEN NULL ELSE bulkAction
  /\ hasSignature' = PadAfter(hasSignature)

\* what follows fetchData in the handler that awaited it, with the busy flag
\* cleared by the finally blocks
Finish(kind) ==
  /\ loading' = FALSE
  /\ view' = IF kind \in {"action", "transfer"} THEN "LIST" ELSE view
  /\ selectedApproval' = IF kind \in {"action", "transfer"} THEN NoApproval ELSE selectedApproval
  /\ linkedContract' = IF kind \in {"action", "transfer"} THEN NoContract ELSE linkedContract
  /\ linkedPayment' = IF kind \in {"action", "transfer"} THEN NoPayment ELSE linkedPayment
  /\ selectedIds' = IF kind = "bulk" THEN {} ELSE selectedIds
  /\ bulkAction' = IF kind = "bulk" THEN NULL ELSE bulkAction
  /\ hasSignature' = PadAfter(hasSignature)

\* fetchData: fetchUserApprovals answered or failed; with no payment and no
\* contract to look up the load is over
FetchApprovalsResp(ok) ==
  /\ cleared' = 0
  /\ wf.pc = "fetch_approvals"
  /\ UNCHANGED <<remote, user, loginError, filterVars, formVars>>
  /\ UNCHANGED <<idFetch, contracts, paymentApprovals, approvalsMap, contractsMap, paymentVars,
                 milestoneVars>>
  /\ loadedFor' = IF ok THEN wf.user ELSE loadedFor
  /\ IF ok
       THEN LET data == fetchUserApprovals(remote, wf.user)
            IN /\ approvals' = data
               /\ IF PaymentIdsOf(data) # {} \/ ContractIdsOf(data) # {}
                    THEN /\ wf' = [wf EXCEPT !.pc = "fetch_maps"]
                         /\ UNCHANGED <<loading, view, selectedApproval, selectedIds,
                                        bulkAction, hasSignature, linkedContract,
                                        linkedPayment>>
                    ELSE /\ wf' = End(wf, "ok")
                         /\ Finish(wf.kind)
       ELSE /\ UNCHANGED approvals
            /\ wf' = End([wf EXCEPT !.alerts = @ + 1],
                         IF wf.kind \in {"login", "refresh"} THEN "failed" ELSE "ok")
            /\ Finish(wf.kind)

\* fetchData: the related approvals and the contracts have been asked for;
\* a failed request is swallowed by the service and yields no records
FetchMapsDone(okRelated, okContracts) ==
  /\ cleared' = 0
  /\ wf.pc = "fetch_maps"
  /\ wf' = End(wf, "ok")
  /\ LET paymentIds == PaymentIdsOf(approvals)
         relatedApprovals == IF okRelated THEN fetchApprovalsByPaymentIDs(remote, paymentIds)
                             ELSE <<>>
     IN approvalsMap' = IF paymentIds # {} THEN GroupByPayment(relatedApprovals)
                        ELSE approvalsMap
  /\ LET contractIds == ContractIdsOf(approvals)
         found == IF okContracts THEN fetchContractsByIds(contracts, contractIds) ELSE <<>>
     IN contractsMap' = IF contractIds # {} THEN ContractsMapOf(found) ELSE contractsMap
  /\ UNCHANGED <<remote, user, loginError, approvals, filterVars, formVars,
                 contracts, paymentApprovals, paymentVars, milestoneVars, loadedFor,
                 idFetch>>
  /\ Finish(wf.kind)

HandleRefresh ==
  /\ cleared' = 0
  /\ UNCHANGED linkVars
  /\ ListUI /\ ~loading /\ user # NULL /\ Free
  /\ loading' = TRUE
  /\ wf' = EnterFetch(Begin("refresh", "fetch_approvals"))
  /\ UNCHANGED <<remote, user, loginError, view, approvals, filterVars, selectedIds,
                 bulkAction, selectedApproval, formVars, hasSignature>>

HandleLogout ==
  /\ ListUI
  /\ user' = NULL
  /\ view' = "LOGIN"
  /\ projectFilter' = ""
  /\ supplierFilter' = ""
  /\ filter' = "WAITING"
  /\ UNCHANGED <<remote, loginError, approvals, listMode, bulkAction,
                 selectedApproval, formVars, loading, wf>>
  /\ selectedIds' = SelectionAfter(selectedIds)
  /\ cleared' = Cardinality(selectedIds \ selectedIds')
  /\ UNCHANGED linkVars
  /\ hasSignature' = PadAfter(hasSignature)

\* ------------------------------------------------------------------------
\* List view: filters, list mode, multi-select
\* ------------------------------------------------------------------------

SetFilter(flt) ==
  /\ ListUI
  /\ filter' = flt
  /\ UNCHANGED <<remote, user, loginError, view, approvals, projectFilter,
                 supplierFilter, listMode, bulkAction, selectedApproval, formVars,
                 hasSignature, loading, wf>>
  /\ selectedIds' = SelectionAfter(selectedIds)
  /\ cleared' = Cardinality(selectedIds \ selectedIds')
  /\ UNCHANGED linkVars

SetProjectFilter(p) ==
  /\ ListUI
  /\ p \in {""} \cup UniqueProjectsOf(approvals)
  /\ projectFilter' = p
  /\ UNCHANGED <<remote, user, loginError, view, approvals, filter,
                 supplierFilter, listMode, bulkAction, selectedApproval, formVars,
                 hasSignature, loading, wf>>
  /\ selectedIds' = SelectionAfter(selectedIds)
  /\ cleared' = Cardinality(selectedIds \ selectedIds')
  /\ UNCHANGED linkVars

SetSupplierFilter(sp) ==
  /\ ListUI
  /\ sp \in {""} \cup UniqueSuppliersOf(approvals)
  /\ supplierFilter' = sp
  /\ UNCHANGED <<remote, user, loginError, view, approvals, filter,
                 projectFilter, listMode, bulkAction, selectedApproval, formVars,
                 hasSignature, loading, wf>>
  /\ selectedIds' = SelectionAfter(selectedIds)
  /\ cleared' = Cardinality(selectedIds \ selectedIds')
  /\ UNCHANGED linkVars

SetListMode(m) ==
  /\ ListUI
  /\ listMode' = m
  /\ UNCHANGED <<remote, user, loginError, view, approvals, filter,
                 projectFilter, supplierFilter, bulkAction, selectedApproval,
                 formVars, hasSignature, loading, wf>>
  /\ selectedIds' = SelectionAfter(selectedIds)
  /\ cleared' = Cardinality(selectedIds \ selectedIds')
  /\ UNCHANGED linkVars

\* the row checkbox of the table
HandleSelectRow(i) ==
  /\ cleared' = 0
  /\ UNCHANGED linkVars
  /\ ListUI /\ listMode = "TABLE"
  /\ i \in filteredIds
  /\ selectedIds' = IF i \in selectedIds THEN selectedIds \ {i} ELSE selectedIds \cup {i}
  /\ UNCHANGED <<remote, user, loginError, view, approvals, filterVars, bulkAction,
                 selectedApproval, formVars, hasSignature, loading, wf>>

\* the header checkbox of the table (rendered when the list is not empty)
HandleSelectAll ==
  /\ cleared' = 0
  /\ UNCHANGED linkVars
  /\ ListUI /\ listMode = "TABLE"
  /\ filteredApprovals # <<>>
  /\ selectedIds' = IF Cardinality(selectedIds) = Len(filteredApprovals)
                      THEN {} ELSE filteredIds
  /\ UNCHANGED <<remote, user, loginError, view, approvals, filterVars, bulkAction,
                 selectedApproval, formVars, hasSignature, loading, wf>>

\* ------------------------------------------------------------------------
\* Detail view
\* ------------------------------------------------------------------------

\* handleApprovalClick up to its first await (a card or a table row)
HandleApprovalClick(r) ==
  /\ cleared' = 0
  /\ ListUI /\ Free
  /\ r \in Range(filteredApprovals)
  /\ selectedApproval' = r
  /\ linkedPayment' = NoPayment
  /\ linkedContract' = NoContract
  /\ paymentApprovals' = <<>>
  /\ relatedPayments' = <<>>
  /\ availableMilestones' = <<>>
  /\ isEditingMilestone' = FALSE
  /\ failedFetches' = {}
  /\ UNCHANGED <<idFetch, contracts, approvalsMap, contractsMap, payments, milestones,
                 pendingRelated, selectedMilestoneId, loadedFor>>
  /\ IF PaymentLink[r.id] # ""
       THEN /\ loading' = TRUE
            /\ wf' = Begin("open", "open")
            /\ UNCHANGED view
       ELSE /\ loading' = FALSE
            /\ wf' = End(Begin("open", "idle"), "ok")
            /\ view' = "DETAIL"
  /\ UNCHANGED <<remote, user, loginError, approvals, filterVars, selectedIds,
                 bulkAction, formVars>>
  /\ hasSignature' = PadAfter(hasSignature)

\* the payment, contract and chain fetches are in; each of them swallows its
\* own failure and then yields null or an empty chain. The related payments
\* are asked for without waiting for them, and with a contract resolved the
\* handler goes on to fetch its milestones
OpenDone(okPayment, okContract, okChain) ==
  /\ cleared' = 0
  /\ wf.pc = "open"
  /\ LET paymentRecId == PaymentLink[selectedApproval.id]
         paymentData == IF okPayment THEN fetchPaymentDetails(payments, paymentRecId)
                        ELSE NoPayment
         contractData == IF okContract
                           THEN fetchContract(contracts, selectedApproval.contractLink)
                         ELSE NoContract
     IN /\ linkedPayment' = paymentData
        /\ linkedContract' = contractData
        /\ paymentApprovals' = IF okChain
                                 THEN fetchApprovalsByPaymentID(remote, paymentRecId)
                               ELSE <<>>
        /\ pendingRelated' =
             IF paymentData # NoPayment /\ paymentData.project # "" /\ paymentData.supplier # ""
               THEN pendingRelated \cup
                      {[project |-> paymentData.project, supplier |-> paymentData.supplier]}
             ELSE pendingRelated
        /\ IF contractData # NoContract
             THEN /\ wf' = [wf EXCEPT !.pc = "open_milestones", !.arg = contractData]
                  /\ UNCHANGED <<view, loading>>
             ELSE /\ wf' = End(wf, "ok")
                  /\ view' = "DETAIL"
                  /\ loading' = FALSE
  /\ failedFetches' = {fetch \in {"payment", "contract", "chain"} :
                          \/ fetch = "payment" /\ ~okPayment
                          \/ fetch = "contract" /\ ~okContract
                          \/ fetch = "chain" /\ ~okChain}
  /\ UNCHANGED <<idFetch, contracts, approvalsMap, contractsMap, payments, milestones,
                 relatedPayments, milestoneVars, loadedFor>>
  /\ UNCHANGED <<remote, user, loginError, approvals, filterVars, selectedIds,
                 bulkAction, selectedApproval, formVars>>
  /\ hasSignature' = PadAfter(hasSignature)

\* a milestone search whose failure is not caught: the handler ends there
MilestonesRespUncaught(ok) ==
  /\ cleared' = 0
  /\ wf.pc = "open_milestones"
  /\ LET fetchedMilestones == IF ok THEN fetchTableRecords(milestones, wf.arg) ELSE <<>>
     IN IF fetchedMilestones # <<>>
          THEN availableMilestones' \in SortOutcomes(fetchedMilestones)
          ELSE UNCHANGED availableMilestones
  /\ view' = IF ok THEN "DETAIL" ELSE view
  /\ loading' = IF ok THEN FALSE ELSE loading
  /\ wf' = End(wf, IF ok THEN "ok" ELSE "failed")
  /\ failedFetches' = IF ok THEN failedFetches ELSE failedFetches \cup {"milestones"}
  /\ UNCHANGED <<idFetch, contracts, paymentApprovals, approvalsMap, linkedContract, contractsMap,
                 linkedPayment, payments, milestones, relatedPayments, pendingRelated,
                 isEditingMilestone, selectedMilestoneId, loadedFor>>
  /\ UNCHANGED <<remote, user, loginError, approvals, filterVars, selectedIds,
                 bulkAction, selectedApproval, formVars>>
  /\ hasSignature' = PadAfter(hasSignature)

\* the milestone search of the detail load is answered: a failure is caught
\* and leaves the candidates empty; the records found are sorted and kept
MilestonesResp(ok) ==
  /\ cleared' = 0
  /\ wf.pc = "open_milestones"
  /\ LET fetchedMilestones == IF ok THEN fetchTableRecords(milestones, wf.arg) ELSE <<>>
     IN IF fetchedMilestones # <<>>
          THEN availableMilestones' \in SortOutcomes(fetchedMilestones)
          ELSE UNCHANGED availableMilestones
  /\ view' = "DETAIL"
  /\ loading' = FALSE
  /\ wf' = End(wf, "ok")
  /\ failedFetches' = IF ok THEN failedFetches ELSE failedFetches \cup {"milestones"}
  /\ UNCHANGED <<idFetch, contracts, paymentApprovals, approvalsMap, linkedContract, contractsMap,
                 linkedPayment, payments, milestones, relatedPayments, pendingRelated,
                 isEditingMilestone, selectedMilestoneId, loadedFor>>
  /\ UNCHANGED <<remote, user, loginError, approvals, filterVars, selectedIds,
                 bulkAction, selectedApproval, formVars>>
  /\ hasSignature' = PadAfter(hasSignature)

\* a fetchRelatedPayments call is answered, whenever that is: its then()
\* stores the result, a failure having been turned into the empty list
RelatedPaymentsResp(req, ok) ==
  /\ cleared' = 0
  /\ req \in pendingRelated
  /\ pendingRelated' = pendingRelated \ {req}
  /\ relatedPayments' = IF ok THEN fetchRelatedPayments(payments, req.project, req.supplier)
                         ELSE <<>>
  /\ failedFetches' = IF ok THEN failedFetches \ {"related"}
                       ELSE failedFetches \cup {"related"}
  /\ UNCHANGED <<idFetch, contracts, paymentApprovals, approvalsMap, linkedContract, contractsMap,
                 linkedPayment, payments, milestones, milestoneVars, loadedFor>>
  /\ UNCHANGED <<remote, user, loginError, view, approvals, filterVars, selectedIds,
                 bulkAction, selectedApproval, formVars, hasSignature, loading, wf>>

HandleBackToList ==
  /\ cleared' = 0
  /\ DetailUI
  /\ selectedApproval' = NoApproval
  /\ linkedPayment' = NoPayment
  /\ linkedContract' = NoContract
  /\ view' = "LIST"
  /\ UNCHANGED <<idFetch, contracts, paymentApprovals, approvalsMap, contractsMap, paymentVars,
                 milestoneVars, loadedFor>>
  /\ UNCHANGED <<remote, user, loginError, approvals, filterVars, selectedIds,
                 bulkAction, formVars, loading, wf>>
  /\ hasSignature' = PadAfter(hasSignature)

\* the Approve / Reject / Delay buttons of renderActionArea
SetActiveAction(a) ==
  /\ cleared' = 0
  /\ UNCHANGED linkVars
  /\ DetailUI /\ activeAction = NULL
  /\ a \in {"APPROVE", "REJECT", "DELAY"}
  /\ LET currentStatus == selectedApproval.status
     IN /\ a = "APPROVE" => ~IsSigned(currentStatus)
        /\ a = "REJECT" => ~IsRejected(currentStatus)
  /\ activeAction' = a
  /\ UNCHANGED <<remote, user, loginError, view, approvals, filterVars, selectedIds,
                 bulkAction, selectedApproval, reasonText, transferList,
                 selectedTransferUser, loading, wf>>
  /\ hasSignature' = PadAfter(hasSignature)

\* the cancel / close button of an action form
CancelAction ==
  /\ cleared' = 0
  /\ UNCHANGED linkVars
  /\ DetailUI /\ activeAction # NULL
  /\ activeAction' = NULL
  /\ UNCHANGED <<remote, user, loginError, view, approvals, filterVars, selectedIds,
                 bulkAction, selectedApproval, reasonText, transferList,
                 selectedTransferUser, loading, wf>>
  /\ hasSignature' = PadAfter(hasSignature)

\* SignaturePad: a stroke on the canvas, the clear button
DrawSignature ==
  /\ cleared' = 0
  /\ UNCHANGED linkVars
  /\ PadMounted
  /\ hasSignature' = TRUE
  /\ UNCHANGED <<remote, user, loginError, view, approvals, filterVars, selectedIds,
                 bulkAction, selectedApproval, formVars, loading, wf>>

ClearCanvas ==
  /\ cleared' = 0
  /\ UNCHANGED linkVars
  /\ PadMounted
  /\ hasSignature' = FALSE
  /\ UNCHANGED <<remote, user, loginError, view, approvals, filterVars, selectedIds,
                 bulkAction, selectedApproval, formVars, loading, wf>>

\* the reason textarea of the detail form or of the bulk modal
SetReasonText(t) ==
  /\ cleared' = 0
  /\ UNCHANGED linkVars
  /\ \/ DetailUI /\ activeAction \in {"REJECT", "DELAY"}
     \/ ModalUI /\ bulkAction \in {"REJECT", "DELAY"}
  /\ reasonText' = t
  /\ UNCHANGED <<remote, user, loginError, view, approvals, filterVars, selectedIds,
                 bulkAction, selectedApproval, activeAction, transferList,
                 selectedTransferUser, hasSignature, loading, wf>>

\* the employee select of the detail form or of the bulk modal
SetSelectedTransferUser(u) ==
  /\ cleared' = 0
  /\ UNCHANGED linkVars
  /\ \/ DetailUI /\ activeAction = "TRANSFER" /\ transferList # {}
     \/ ModalUI /\ bulkAction = "TRANSFER"
  /\ u \in transferList \cup {""}
  /\ selectedTransferUser' = u
  /\ UNCHANGED <<remote, user, loginError, view, approvals, filterVars, selectedIds,
                 bulkAction, selectedApproval, activeAction, transferList,
                 reasonText, hasSignature, loading, wf>>

\* the milestone editor of the detail view is shown for an approval that
\* has a milestone text; its select and button need candidates
EditorShown == DetailUI /\ selectedApproval.milestone.text # <<>>
SelectShown == EditorShown /\ isEditingMilestone /\ availableMilestones # <<>>

\* the change / cancel link of the milestone text
ToggleEditMilestone ==
  /\ cleared' = 0
  /\ EditorShown
  /\ isEditingMilestone' = ~isEditingMilestone
  /\ UNCHANGED <<idFetch, contracts, paymentApprovals, approvalsMap, linkedContract, contractsMap,
                 linkedPayment, paymentVars, availableMilestones, selectedMilestoneId,
                 loadedFor>>
  /\ UNCHANGED <<remote, user, loginError, view, approvals, filterVars, selectedIds,
                 bulkAction, selectedApproval, formVars, hasSignature, loading, wf>>

\* the milestone select: one of the candidates, or the placeholder
SetSelectedMilestoneId(m) ==
  /\ cleared' = 0
  /\ SelectShown
  /\ m \in {c.id : c \in Range(availableMilestones)} \cup {""}
  /\ selectedMilestoneId' = m
  /\ UNCHANGED <<idFetch, contracts, paymentApprovals, approvalsMap, linkedContract, contractsMap,
                 linkedPayment, paymentVars, availableMilestones, isEditingMilestone,
                 loadedFor>>
  /\ UNCHANGED <<remote, user, loginError, view, approvals, filterVars, selectedIds,
                 bulkAction, selectedApproval, formVars, hasSignature, loading, wf>>

\* the local part of updateMilestone for the approval id and the values it
\* resolved when it was called
MilestoneMirrors(id, values) ==
  /\ selectedApproval' = IF selectedApproval = NoApproval THEN NoApproval
                          ELSE [selectedApproval EXCEPT !.milestone = values]
  /\ approvals' = [k \in 1..Len(approvals) |->
                     IF approvals[k].id = id THEN [approvals[k] EXCEPT !.milestone = values]
                     ELSE approvals[k]]
  /\ isEditingMilestone' = FALSE

\* updateMilestone up to its await of updateRecordFields: the values of the
\* chosen id are resolved from the candidates; the payment record is patched
\* when the detail load found one, otherwise the handler updates the local
\* approval at once and returns
UpdateMilestone ==
  /\ cleared' = 0
  /\ SelectShown /\ Free
  /\ selectedApproval # NoApproval /\ selectedMilestoneId # ""
  /\ LET values == Resolved(FindMilestone(availableMilestones, selectedMilestoneId))
         w == [Begin("milestone", "milestone") EXCEPT
                 !.recs = <<selectedApproval.id>>,
                 !.arg = [milestone |-> selectedMilestoneId, payment |-> linkedPayment.id,
                          values |-> values]]
     IN IF linkedPayment # NoPayment
          THEN /\ loading' = TRUE
               /\ wf' = w
               /\ UNCHANGED <<selectedApproval, approvals, isEditingMilestone>>
          ELSE /\ loading' = FALSE
               /\ wf' = End(w, "ok")
               /\ MilestoneMirrors(selectedApproval.id, values)
  /\ UNCHANGED <<idFetch, contracts, paymentApprovals, approvalsMap, linkedContract, contractsMap,
                 linkedPayment, paymentVars, availableMilestones, selectedMilestoneId,
                 loadedFor>>
  /\ UNCHANGED <<remote, user, loginError, view, filterVars, selectedIds,
                 bulkAction, formVars, hasSignature>>

\* the payment PATCH of updateMilestone is answered: on success the milestone
\* link is on the payment record and the local payment and approval follow;
\* a failure is caught with one alert, and the finally block clears the busy
\* flag either way
MilestoneResp(ok) ==
  /\ cleared' = 0
  /\ wf.pc = "milestone"
  /\ loading' = FALSE
  /\ IF ok
       THEN /\ wf' = End(wf, "ok")
            /\ payments' = updateRecordFields(payments, wf.arg.payment, wf.arg.milestone)
            /\ linkedPayment' = IF linkedPayment = NoPayment THEN NoPayment
                                 ELSE [linkedPayment EXCEPT
                                         !.milestoneLink = wf.arg.milestone,
                                         !.milestone.section = wf.arg.values.section]
            /\ MilestoneMirrors(wf.recs[1], wf.arg.values)
       ELSE /\ wf' = CatchFailure(wf)
            /\ UNCHANGED <<payments, linkedPayment, selectedApproval, approvals,
                           isEditingMilestone>>
  /\ UNCHANGED <<idFetch, contracts, paymentApprovals, approvalsMap, linkedContract, contractsMap,
                 milestones, relatedPayments, pendingRelated, availableMilestones,
                 selectedMilestoneId, loadedFor, failedFetches>>
  /\ UNCHANGED <<remote, user, loginError, view, filterVars, selectedIds,
                 bulkAction, formVars>>
  /\ hasSignature' = PadAfter(hasSignature)

\* ------------------------------------------------------------------------
\* Single actions of the detail view
\* ------------------------------------------------------------------------

\* handleTransferClick up to its await of fetchEmployeesByDepartment
HandleTransferClick ==
  /\ cleared' = 0
  /\ UNCHANGED linkVars
  /\ DetailUI /\ activeAction = NULL /\ Free
  /\ selectedApproval # NoApproval
  /\ loading' = TRUE
  /\ wf' = [Begin("transferList", "employees") EXCEPT !.arg = selectedApproval.department]
  /\ UNCHANGED <<remote, user, loginError, view, approvals, filterVars, selectedIds,
                 bulkAction, selectedApproval, formVars, hasSignature>>

\* the employee list is in; a failed request yields the empty list
EmployeesResp(ok) ==
  /\ cleared' = 0
  /\ UNCHANGED linkVars
  /\ wf.pc = "employees"
  /\ LET employees == IF ok THEN fetchEmployeesByDepartment(wf.arg) ELSE {}
     IN transferList' = employees \ {wf.user}
  /\ activeAction' = "TRANSFER"
  /\ loading' = FALSE
  /\ wf' = End(wf, "ok")
  /\ UNCHANGED <<remote, user, loginError, view, approvals, filterVars, selectedIds,
                 bulkAction, selectedApproval, reasonText, selectedTransferUser>>
  /\ hasSignature' = PadAfter(hasSignature)

\* executeTransfer up to its first await
ExecuteTransfer ==
  /\ cleared' = 0
  /\ UNCHANGED linkVars
  /\ DetailUI /\ activeAction = "TRANSFER" /\ transferList # {} /\ Free
  /\ selectedTransferUser # ""
  /\ selectedApproval # NoApproval
  /\ loading' = TRUE
  /\ wf' = StartPatching([Begin("transfer", "patch") EXCEPT
                            !.action = "TRANSFER",
                            !.arg = selectedTransferUser,
                            !.recs = <<selectedApproval.id>>,
                            !.queue = TransferReqs(selectedApproval.id, selectedTransferUser)])
  /\ UNCHANGED <<remote, user, loginError, view, approvals, filterVars, selectedIds,
                 bulkAction, selectedApproval, formVars, hasSignature>>

\* executeAction up to its await of the PATCH
ExecuteAction(signatureUrl) ==
  /\ cleared' = 0
  /\ UNCHANGED linkVars
  /\ selectedApproval # NoApproval /\ user # NULL /\ activeAction # NULL
  /\ Free
  /\ loading' = TRUE
  /\ wf' = StartPatching([Begin("action", "patch") EXCEPT
                            !.action = activeAction,
                            !.sig = signatureUrl,
                            !.recs = <<selectedApproval.id>>,
                            !.queue = ActionReqs(activeAction, signatureUrl,
                                                 selectedApproval.id, reasonText)])
  /\ UNCHANGED <<remote, user, loginError, view, approvals, filterVars, selectedIds,
                 bulkAction, selectedApproval, formVars, hasSignature>>

\* SignaturePad.handleSave: the save button is disabled until something is drawn
PadSave ==
  /\ PadMounted /\ hasSignature
  /\ ExecuteAction(TRUE)

\* the confirm button of the reject / delay form (disabled on a blank reason)
ConfirmReason ==
  /\ DetailUI /\ activeAction \in {"REJECT", "DELAY"}
  /\ reasonText # ""
  /\ ExecuteAction(FALSE)

\* ------------------------------------------------------------------------
\* Bulk actions of the list view
\* ------------------------------------------------------------------------

\* handleBulkClick; for a transfer the employees of the first selected
\* record's department are fetched before the modal opens
HandleBulkClick(a) ==
  /\ cleared' = 0
  /\ UNCHANGED linkVars
  /\ ListUI /\ selectedIds # {}
  /\ reasonText' = ""
  /\ selectedTransferUser' = ""
  /\ IF a = "TRANSFER" /\ \E firstId \in selectedIds : firstId \in approvalIds
       THEN /\ Free
            /\ \E firstId \in selectedIds \cap approvalIds :
                 wf' = [Begin("bulkTransferList", "bulk_employees") EXCEPT
                          !.arg = (CHOOSE r \in Range(approvals) : r.id = firstId).department,
                          !.action = a]
            /\ loading' = TRUE
            /\ UNCHANGED bulkAction
       ELSE /\ bulkAction' = a
            /\ UNCHANGED <<loading, wf>>
  /\ UNCHANGED <<remote, user, loginError, view, approvals, filterVars, selectedIds,
                 selectedApproval, activeAction, transferList, hasSignature>>

BulkEmployeesResp(ok) ==
  /\ cleared' = 0
  /\ UNCHANGED linkVars
  /\ wf.pc = "bulk_employees"
  /\ LET employees == IF ok THEN fetchEmployeesByDepartment(wf.arg) ELSE {}
     IN transferList' = employees \ {wf.user}
  /\ loading' = FALSE
  /\ bulkAction' = wf.action
  /\ wf' = End(wf, "ok")
  /\ UNCHANGED <<remote, user, loginError, view, approvals, filterVars, selectedIds,
                 selectedApproval, activeAction, reasonText, selectedTransferUser,
                 hasSignature>>

CancelBulk ==
  /\ cleared' = 0
  /\ UNCHANGED linkVars
  /\ ModalUI
  /\ bulkAction' = NULL
  /\ UNCHANGED <<remote, user, loginError, view, approvals, filterVars, selectedIds,
                 selectedApproval, formVars, hasSignature, loading, wf>>

\* recordsToUpdate: the selected records in approvals-list order
RecordsToUpdate(apps, sel) ==
  LET recs == FilterSeq(apps, {r \in Range(apps) : r.id \in sel})
  IN [k \in 1..Len(recs) |-> recs[k].id]

\* executeBulkAction up to its first await
ExecuteBulkAction ==
  /\ cleared' = 0
  /\ UNCHANGED linkVars
  /\ ModalUI /\ Free
  /\ ~(bulkAction # "APPROVE" /\ reasonText = "" /\ selectedTransferUser = "")
  /\ user # NULL
  /\ loading' = TRUE
  /\ LET recordsToUpdate == RecordsToUpdate(approvals, selectedIds)
     IN wf' = StartPatching([Begin("bulk", "patch") EXCEPT
                 !.action = bulkAction,
                 !.arg = selectedTransferUser,
                 !.recs = recordsToUpdate,
                 !.queue = Concat([k \in 1..Len(recordsToUpdate) |->
                              BulkReqs(bulkAction, recordsToUpdate[k], reasonText,
                                       selectedTransferUser)])])
  /\ UNCHANGED <<remote, user, loginError, view, approvals, filterVars, selectedIds,
                 bulkAction, selectedApproval, formVars, hasSignature>>

\* ------------------------------------------------------------------------
\* The PATCH phase shared by executeAction, executeTransfer, executeBulkAction
\* ------------------------------------------------------------------------

\* an outstanding PATCH is answered: on success the store has the new fields
\* and the handler goes on to its next request or to fetchData; on failure the
\* handler's catch block raises one alert and its finally clears the busy flag
PatchResp(req, ok) ==
  /\ cleared' = 0
  /\ wf.pc = "patch"
  /\ req \in wf.outstanding
  /\ UNCHANGED <<user, loginError, approvals, filterVars, formVars>>
  /\ UNCHANGED <<idFetch, contracts, paymentApprovals, approvalsMap, contractsMap, paymentVars,
                 milestoneVars, loadedFor>>
  /\ IF ok
       THEN LET w == [wf EXCEPT !.outstanding = @ \ {req}, !.done = Append(@, req)]
            IN /\ remote' = Apply(remote, req)
               /\ IF w.queue # <<>> \/ w.outstanding # {}
                    THEN /\ wf' = Issue(w)
                         /\ UNCHANGED <<loading, view, selectedApproval, selectedIds,
                                        bulkAction, hasSignature, linkedContract,
                                        linkedPayment>>
                  ELSE IF w.user # NULL
                    THEN /\ wf' = EnterFetch(w)
                         /\ loading' = TRUE
                         /\ UNCHANGED <<view, selectedApproval, selectedIds,
                                        bulkAction, hasSignature, linkedContract,
                                        linkedPayment>>
                  ELSE /\ wf' = End(w, "ok")
                       /\ Finish(w.kind)
       ELSE /\ wf' = CatchFailure(wf)
            /\ loading' = FALSE
            /\ UNCHANGED <<remote, view, selectedApproval, selectedIds, bulkAction,
                           hasSignature, linkedContract, linkedPayment>>

\* ------------------------------------------------------------------------
\* Specification
\* ------------------------------------------------------------------------

Next ==
  \/ \E e \in Emails, pw \in PasswordInputs : HandleLogin(e, pw)
  \/ \E ok \in BOOLEAN : LoginResp(ok)
  \/ \E ok \in BOOLEAN : FetchApprovalsResp(ok)
  \/ FetchMapsDone(TRUE, TRUE)
  \/ HandleRefresh
  \/ HandleLogout
  \/ \E flt \in FilterButtons : SetFilter(flt)
  \/ \E p \in {"", "p1", "p2"} : SetProjectFilter(p)
  \/ \E sp \in {"", "s1"} : SetSupplierFilter(sp)
  \/ \E m \in ListModes : SetListMode(m)
  \/ \E i \in AllIds : HandleSelectRow(i)
  \/ HandleSelectAll
  \/ \E r \in Range(approvals) : HandleApprovalClick(r)
  \/ OpenDone(TRUE, TRUE, TRUE)
  \/ HandleBackToList
  \/ \E a \in ActionTypes : SetActiveAction(a)
  \/ CancelAction
  \/ DrawSignature
  \/ ClearCanvas
  \/ \E t \in ReasonTexts : SetReasonText(t)
  \/ \E u \in Users \cup {""} : SetSelectedTransferUser(u)
  \/ HandleTransferClick
  \/ \E ok \in BOOLEAN : EmployeesResp(ok)
  \/ ExecuteTransfer
  \/ PadSave
  \/ ConfirmReason
  \/ \E a \in ActionTypes : HandleBulkClick(a)
  \/ \E ok \in BOOLEAN : BulkEmployeesResp(ok)
  \/ CancelBulk
  \/ ExecuteBulkAction
  \/ \E req \in wf.outstanding, ok \in BOOLEAN : PatchResp(req, ok)

Spec == Init /\ [][Next]_vars

\* the list view's own events
NextList ==
  \/ \E flt \in FilterButtons : SetFilter(flt)
  \/ \E p \in {"", "p1", "p2"} : SetProjectFilter(p)
  \/ \E sp \in {"", "s1"} : SetSupplierFilter(sp)
  \/ \E m \in ListModes : SetListMode(m)
  \/ \E i \in AllIds : HandleSelectRow(i)
  \/ HandleSelectAll
  \/ HandleLogout

SpecList == InitList /\ [][NextList]_vars

\* the table's multi-select and the bulk actions
NextBulk ==
  \/ \E m \in ListModes : SetListMode(m)
  \/ \E i \in AllIds : HandleSelectRow(i)
  \/ HandleSelectAll
  \/ \E a \in ActionTypes : HandleBulkClick(a)
  \/ \E ok \in BOOLEAN : BulkEmployeesResp(ok)
  \/ \E t \in ReasonTexts : SetReasonText(t)
  \/ \E u \in Users \cup {""} : SetSelectedTransferUser(u)
  \/ CancelBulk
  \/ ExecuteBulkAction
  \/ \E req \in wf.outstanding, ok \in BOOLEAN : PatchResp(req, ok)
  \/ \E ok \in BOOLEAN : FetchApprovalsResp(ok)
  \/ FetchMapsDone(TRUE, TRUE)

SpecBulk == InitBulk /\ [][NextBulk]_vars

SpecDept == InitDept /\ [][NextBulk]_vars

\* the login form, the load that follows a login, refresh and logout
NextLogin ==
  \/ \E e \in Emails, pw \in PasswordInputs : HandleLogin(e, pw)
  \/ \E ok \in BOOLEAN : LoginResp(ok)
  \/ \E ok \in BOOLEAN : FetchApprovalsResp(ok)
  \/ FetchMapsDone(TRUE, TRUE)
  \/ HandleRefresh
  \/ HandleLogout

SpecLogin == Init /\ [][NextLogin]_vars

\* a loaded session of u1 right after the login: the load has finished and
\* the list is shown
\* the first approval of the mixed store names a contract with one milestone
\* and already shows a milestone text
StoreBusy ==
  [StoreMixed EXCEPT !["a1"].contractLink = "k1",
                     !["a1"].milestone = [section |-> <<>>, text |-> <<"t", "0">>,
                                          num |-> <<>>]]
ContractsBusy == <<[id |-> "rc1", recId |-> "k1"]>>
MilestonesBusy ==
  <<[id |-> "m1", contract |-> "k1", num |-> Num(1), sec |-> Undef, secNum |-> Undef,
     text |-> <<"t", "1">>]>>

InitBusy ==
  /\ remote = StoreBusy
  /\ user = "u1"
  /\ loginError = ""
  /\ view = "LIST"
  /\ approvals = fetchUserApprovals(StoreBusy, "u1")
  /\ contracts = ContractsBusy
  /\ payments = PaymentsPlain
  /\ idFetch = NoIdFetch
  /\ milestones = MilestonesBusy
  /\ NothingOpened
  /\ paymentApprovals = <<>>
  /\ approvalsMap = LoadedMap(StoreBusy, approvals)
  /\ linkedContract = NoContract
  /\ contractsMap = ContractsMapOf(fetchContractsByIds(ContractsBusy, ContractIdsOf(approvals)))
  /\ filter = "WAITING"
  /\ projectFilter = ""
  /\ supplierFilter = ""
  /\ listMode = "CARDS"
  /\ selectedIds = {}
  /\ bulkAction = NULL
  /\ selectedApproval = NoApproval
  /\ activeAction = NULL
  /\ reasonText = ""
  /\ transferList = {}
  /\ selectedTransferUser = ""
  /\ hasSignature = FALSE
  /\ loading = FALSE
  /\ wf = [End(Idle, "ok") EXCEPT !.kind = "login", !.n = 1]
  /\ cleared = 0

\* the answers of the remote store to the requests in flight
Respond ==
  \/ \E ok \in BOOLEAN : LoginResp(ok)
  \/ \E ok \in BOOLEAN : FetchApprovalsResp(ok)
  \/ FetchMapsDone(TRUE, TRUE)
  \/ OpenDone(TRUE, TRUE, TRUE)
  \/ \E ok \in BOOLEAN : EmployeesResp(ok)
  \/ \E ok \in BOOLEAN : BulkEmployeesResp(ok)
  \/ \E ok \in BOOLEAN : MilestonesResp(ok)
  \/ \E ok \in BOOLEAN : MilestoneResp(ok)
  \/ \E req \in wf.outstanding, ok \in BOOLEAN : PatchResp(req, ok)

\* every handler that sets the busy flag, with the events that lead to it
NextBusy ==
  \/ \E e \in Emails, pw \in PasswordInputs : HandleLogin(e, pw)
  \/ HandleRefresh
  \/ HandleLogout
  \/ \E flt \in FilterButtons : SetFilter(flt)
  \/ \E m \in ListModes : SetListMode(m)
  \/ \E i \in AllIds : HandleSelectRow(i)
  \/ \E r \in Range(approvals) : HandleApprovalClick(r)
  \/ \E a \in ActionTypes : SetActiveAction(a)
  \/ DrawSignature
  \/ \E t \in ReasonTexts : SetReasonText(t)
  \/ \E u \in Users \cup {""} : SetSelectedTransferUser(u)
  \/ HandleTransferClick
  \/ ToggleEditMilestone
  \/ \E m \in {"", "m1"} : SetSelectedMilestoneId(m)
  \/ UpdateMilestone
  \/ ExecuteTransfer
  \/ PadSave
  \/ ConfirmReason
  \/ \E a \in ActionTypes : HandleBulkClick(a)
  \/ ExecuteBulkAction
  \/ Respond

\* every request is answered or fails in the end
SpecBusy == InitBusy /\ [][NextBusy]_vars /\ WF_vars(Respond)

\* the order values the approvals of one payment may carry
MaxChain == 3
OrderInputs ==
  {Undef, Num(1), Num(42), Num(10000), Str(<<"2">>), Str(<<"1">>), Str(<<"3">>),
   Str(<<"S", "t", "e", "p", " ", "3", " ", "o", "f", " ", "5">>),
   Str(<<"n", "/", "a">>), ArrOfStr(<<"2">>)}
ChainIds == {i \in AllIds : CreatedRank[i] <= MaxChain}
ChainStores ==
  {[i \in ChainIds |-> [Rec(statusWaitingValue, NULL, NULL) EXCEPT !.order = ord[i]]] :
     ord \in [ChainIds -> OrderInputs]}

\* the page is opened on a payment whose approvals carry any of these orders
InitChain == remote \in ChainStores /\ PlainTables /\ InitUI

\* the loads that fill the list cards and the detail chain
NextChain ==
  \/ \E pw \in PasswordInputs : HandleLogin("u1", pw)
  \/ \E ok \in BOOLEAN : LoginResp(ok)
  \/ HandleRefresh
  \/ \E ok \in BOOLEAN : FetchApprovalsResp(ok)
  \/ \E okRelated, okContracts \in BOOLEAN : FetchMapsDone(okRelated, okContracts)
  \/ \E r \in Range(approvals) : HandleApprovalClick(r)
  \/ \E okContract, okChain \in BOOLEAN : OpenDone(TRUE, okContract, okChain)
  \/ HandleBackToList

SpecChain == InitChain /\ [][NextChain]_vars

\* the contracts table: every contract has a record id, and a RecID field
\* that the second contract may have left empty
ContractTables ==
  {<<[id |-> "rc1", recId |-> "k1"], [id |-> "rc2", recId |-> r2]>> : r2 \in {"k2", ""}}
\* what an approval's contract link may store: nothing, a record id, a RecID,
\* or a reference to no contract of the table
ContractLinks == {"", "rc1", "k1", "rc2", "k2", "zz"}
\* a1 belongs to a payment, a4 to none
LinkedIds == {"a1", "a4"}
ContractStores ==
  {[i \in LinkedIds |-> [Rec(statusWaitingValue, NULL, NULL) EXCEPT !.contractLink = ln[i]]] :
     ln \in [LinkedIds -> ContractLinks]}

\* the page is opened on approvals that refer to contracts in either form
InitContracts ==
  /\ remote \in ContractStores
  /\ contracts \in ContractTables
  /\ payments = PaymentsPlain
  /\ idFetch = NoIdFetch
  /\ milestones = <<>>
  /\ InitUI

\* the loads of the list and of the detail view, every request answered
NextContracts ==
  \/ \E pw \in PasswordInputs : HandleLogin("u1", pw)
  \/ \E ok \in BOOLEAN : LoginResp(ok)
  \/ HandleRefresh
  \/ \E ok \in BOOLEAN : FetchApprovalsResp(ok)
  \/ FetchMapsDone(TRUE, TRUE)
  \/ \E r \in Range(approvals) : HandleApprovalClick(r)
  \/ OpenDone(TRUE, TRUE, TRUE)
  \/ HandleBackToList

SpecContracts == InitContracts /\ [][NextContracts]_vars

\* approvals with contracts and milestones: a1 and a2 belong to the same
\* payment and name different contracts, a4 has a contract and no payment;
\* each of them already shows a milestone text
StoreDetail ==
  [i \in {"a1", "a2", "a4"} |->
     [Rec(statusWaitingValue, NULL, NULL) EXCEPT
        !.contractLink = IF i = "a2" THEN "k2" ELSE "k1",
        !.milestone = [section |-> <<>>, text |-> <<"t", "0">>, num |-> <<>>]]]
ContractsDetail == <<[id |-> "rc1", recId |-> "k1"], [id |-> "rc2", recId |-> "k2"]>>
PaymentsDetail ==
  [pid \in {"pay1", "pay2"} |->
     [project |-> "p1", supplier |-> "s1", milestoneLink |-> "",
      milestone |-> NoMilestoneFields]]
\* m2 names its contract by the record id and m1 by the RecID
MilestonesDetail ==
  <<[id |-> "m2", contract |-> "rc1", num |-> Num(2), sec |-> Undef, secNum |-> Undef,
     text |-> <<>>],
    [id |-> "m1", contract |-> "k1", num |-> Num(1), sec |-> Undef,
     secNum |-> Str(<<"5">>), text |-> <<"t", "1">>],
    [id |-> "m3", contract |-> "k2", num |-> Num(1), sec |-> Undef, secNum |-> Undef,
     text |-> <<"t", "3">>]>>

\* u1 has logged in on that store and the list is shown
DetailSession ==
  /\ remote = StoreDetail
  /\ user = "u1"
  /\ loginError = ""
  /\ view = "LIST"
  /\ approvals = fetchUserApprovals(StoreDetail, "u1")
  /\ contracts = ContractsDetail
  /\ payments = PaymentsDetail
  /\ idFetch = NoIdFetch
  /\ NothingOpened
  /\ paymentApprovals = <<>>
  /\ approvalsMap = LoadedMap(StoreDetail, approvals)
  /\ linkedContract = NoContract
  /\ contractsMap = ContractsMapOf(fetchContractsByIds(ContractsDetail, ContractIdsOf(approvals)))
  /\ filter = "WAITING"
  /\ projectFilter = ""
  /\ supplierFilter = ""
  /\ listMode = "CARDS"
  /\ selectedIds = {}
  /\ bulkAction = NULL
  /\ selectedApproval = NoApproval
  /\ activeAction = NULL
  /\ reasonText = ""
  /\ transferList = {}
  /\ selectedTransferUser = ""
  /\ hasSignature = FALSE
  /\ loading = FALSE
  /\ wf = [End(Idle, "ok") EXCEPT !.kind = "login", !.n = 1]
  /\ cleared = 0

InitDetail == DetailSession /\ milestones = MilestonesDetail

\* the answers to the requests of the detail view
RespondDetail ==
  \/ \E okPayment, okContract, okChain \in BOOLEAN : OpenDone(okPayment, okContract, okChain)
  \/ \E ok \in BOOLEAN : MilestonesResp(ok)
  \/ \E req \in pendingRelated, ok \in BOOLEAN : RelatedPaymentsResp(req, ok)
  \/ \E ok \in BOOLEAN : MilestoneResp(ok)

\* the detail view and its milestone editor
NextDetail ==
  \/ \E r \in Range(approvals) : HandleApprovalClick(r)
  \/ HandleBackToList
  \/ ToggleEditMilestone
  \/ \E m \in {"", "m1", "m2", "m3"} : SetSelectedMilestoneId(m)
  \/ UpdateMilestone
  \/ RespondDetail

SpecDetail == InitDetail /\ [][NextDetail]_vars /\ WF_vars(RespondDetail)

\* ------------------------------------------------------------------------
\* The milestone sort of the detail load on milestone tables of any content
\* ------------------------------------------------------------------------

\* the milestones of the one contract
MaxMilestones == 3

MilestoneIds == <<"m1", "m2", "m3", "m4">>

\* values an ordering field of a milestone record may hold
NumberInputs == {Undef, Num(0), Num(1), Num(2), Str(<<"3">>), Str(<<"a">>)}

SectionInputs == {Undef, Num(5)}

\* the milestone tables of contract k1
MilestoneInputs ==
  {[k \in 1..MaxMilestones |->
      [id |-> MilestoneIds[k], contract |-> "k1", num |-> nums[k], sec |-> Undef,
       secNum |-> secs[k], text |-> <<>>]] :
     nums \in [1..MaxMilestones -> NumberInputs],
     secs \in [1..MaxMilestones -> SectionInputs]}

InitMilestones == DetailSession /\ milestones \in MilestoneInputs

\* opening an approval and going back, every request answered
NextMilestones ==
  \/ \E r \in Range(approvals) : HandleApprovalClick(r)
  \/ OpenDone(TRUE, TRUE, TRUE)
  \/ \E ok \in BOOLEAN : MilestonesResp(ok)
  \/ HandleBackToList

SpecMilestones == InitMilestones /\ [][NextMilestones]_vars

\* ------------------------------------------------------------------------
\* The chunked id-list fetches of the service
\* ------------------------------------------------------------------------

\* the longest id list asked for
MaxIds == 41

\* what an id-list fetch neither reads nor writes
appVars == <<remote, user, loginError, view, approvals, filterVars, selectedIds,
             bulkAction, selectedApproval, formVars, hasSignature, loading, wf, cleared,
             contracts, paymentApprovals, approvalsMap, linkedContract, contractsMap,
             linkedPayment, paymentVars, milestoneVars, loadedFor>>

\* an id-list fetch is called with the ids 1..n, each naming one record of
\* the table: an empty list returns at once, any other is cut into chunks
CallIdFetch(fn, n) ==
  /\ idFetch.pc \in {"none", "returned"}
  /\ LET ids == [k \in 1..n |-> k]
     IN idFetch' = [fn |-> fn, ids |-> ids, chunks |-> ChunksOf(ids, chunkSize(fn)),
                    allRecords |-> <<>>, pc |-> IF n = 0 THEN "returned" ELSE "loop",
                    failed |-> FALSE, error |-> FALSE]
  /\ UNCHANGED appVars

\* the request of the next chunk is answered: its records are appended and
\* the loop goes on, or the catch around the loop logs the failure and the
\* function returns what it has collected
ChunkResp(ok) ==
  /\ idFetch.pc = "loop"
  /\ idFetch' =
       IF ok
         THEN [idFetch EXCEPT !.allRecords = @ \o Head(idFetch.chunks),
                              !.chunks = Tail(@),
                              !.pc = IF Tail(idFetch.chunks) = <<>> THEN "returned" ELSE "loop"]
       ELSE [idFetch EXCEPT !.pc = "returned", !.failed = TRUE]
  /\ UNCHANGED appVars

InitChunks == Init

NextChunks ==
  \/ \E fn \in IdFetches, n \in 0..MaxIds : CallIdFetch(fn, n)
  \/ \E ok \in BOOLEAN : ChunkResp(ok)

SpecChunks == InitChunks /\ [][NextChunks]_vars

\* ------------------------------------------------------------------------
\* Properties
\* ------------------------------------------------------------------------

\* a status the exclusion rule removes: missing or empty, or signed
Excluded(status) == Falsy(status) \/ IsSigned(status)

\* the number of loaded approvals that pass the exclusion rule and the project
\* and supplier filters and whose status satisfies P
Counted(P(_)) ==
  Cardinality({k \in 1..Len(approvals) :
                 /\ ~Excluded(approvals[k].status)
                 /\ (projectFilter = "" \/ approvals[k].project = projectFilter)
                 /\ (supplierFilter = "" \/ approvals[k].supplier = supplierFilter)
                 /\ P(approvals[k].status)})

\* C1: for any loaded approval set and any status bucket, project filter and
\* supplier filter, no approval whose status is empty, missing or signed is in
\* filteredApprovals, and the four counts count only the other approvals
C1_ExcludedNeverShown ==
  LET AnyStatus(st) == TRUE
  IN /\ \A r \in Range(filteredApprovals) : ~Excluded(r.status)
     /\ counts.totalCount = Counted(AnyStatus)
     /\ counts.waitingCount = Counted(IsWaiting)
     /\ counts.rejectedCount = Counted(IsRejected)
     /\ counts.delayedCount = Counted(IsDelayed)

\* C1 witness: under the "ALL" bucket and a project filter, a signed record
\* and a record without status are loaded and only the third record is shown
\* and counted
C1_Witness ==
  /\ filter = "ALL" /\ projectFilter = "p1"
  /\ Len(approvals) = 3
  /\ \E r \in Range(approvals) : IsSigned(r.status)
  /\ \E r \in Range(approvals) : Falsy(r.status)
  /\ Len(filteredApprovals) = 1
  /\ counts.totalCount = 1

\* C2: once an approval is Signed on the remote store, no step of the client
\* changes its status or its assignee
C2_SignedNeverPatched ==
  [][\A i \in DOMAIN remote :
       IsSigned(remote[i].status) =>
         /\ remote'[i].status = remote[i].status
         /\ remote'[i].assignee = remote[i].assignee]_vars

\* C3: in the list view every selected id is the id of an approval of the
\* filtered (visible) list
C3_SelectionVisible == view = "LIST" => selectedIds \subseteq filteredIds

\* C4: a step that changes the status bucket, the project filter, the supplier
\* filter or the list mode leaves the multi-select set empty
C4_ChangeClearsSelection ==
  [][filterVars' # filterVars => selectedIds' = {}]_vars

\* C4 witness: two or more rows were selected in the table and the switch to
\* the cards has just emptied the selection
C4_Witness == cleared >= 2 /\ selectedIds = {} /\ listMode = "CARDS" /\ view = "LIST"

\* a PATCH of the running bulk action is answered with a failure
BulkPatchFails == wf.kind = "bulk" /\ wf.pc = "patch" /\ wf'.alerts > wf.alerts

\* C5 (as amended): when a PATCH of a bulk Reject on three records fails, the
\* records before the failing one in processing order are Rejected on the
\* remote store, the failing record and the records after it are as they were
\* before the bulk action, and exactly one failure is reported
C5_RejectedUpToFailure ==
  [][(BulkPatchFails /\ wf.action = "REJECT" /\ Len(wf.recs) = 3) =>
       LET p == Len(wf.done) + 1
       IN /\ \A k \in 1..3 :
               remote'[wf.recs[k]].status =
                 IF k < p THEN statusRejectedValue ELSE wf.before[wf.recs[k]].status
          /\ wf'.alerts = 1
          /\ wf'.pc = "idle"]_vars

\* C5 (as stated): when a PATCH of a bulk Reject on three records fails, the
\* two other records are Rejected on the remote store and exactly one failure
\* is reported
C5_OtherTwoRejected ==
  [][(BulkPatchFails /\ wf.action = "REJECT" /\ Len(wf.recs) = 3) =>
       LET p == Len(wf.done) + 1
       IN /\ \A k \in (1..3) \ {p} : remote'[wf.recs[k]].status = statusRejectedValue
          /\ wf'.alerts = 1]_vars

\* C5 witness: a bulk Reject on three records has failed on its second record
C5_Witness ==
  /\ wf.kind = "bulk" /\ wf.action = "REJECT" /\ wf.outcome = "failed"
  /\ Len(wf.recs) = 3 /\ Len(wf.done) = 1 /\ wf.alerts = 1
  /\ remote[wf.recs[1]].status = statusRejectedValue
  /\ remote[wf.recs[3]].status = statusWaitingValue

\* C6: when a PATCH of a bulk action fails, the loop stops with nothing left to
\* send, the failing step writes nothing, every request answered before stays
\* applied on the remote store, and one alert is raised for the bulk action
C6_FailureAborts ==
  [][BulkPatchFails =>
       /\ wf'.pc = "idle" /\ wf'.queue = <<>> /\ wf'.outstanding = {}
       /\ remote' = remote
       /\ \A k \in 1..Len(wf.done) :
            LET q == wf.done[k]
            IN /\ q.status # KEEP => remote'[q.id].status = q.status
               /\ q.assignee # KEEP => remote'[q.id].assignee = q.assignee
       /\ \A k \in 1..Len(wf.recs) :
            (\A j \in 1..Len(wf.done) : wf.done[j].id # wf.recs[k]) =>
              remote'[wf.recs[k]] = wf.before[wf.recs[k]]
       /\ wf'.alerts = 1]_vars

\* C6 witness: a bulk Delay has failed after two of its three records
C6_Witness ==
  /\ wf.kind = "bulk" /\ wf.action = "DELAY" /\ wf.outcome = "failed"
  /\ Len(wf.recs) = 3 /\ Len(wf.done) = 2 /\ wf.alerts = 1
  /\ remote[wf.recs[2]].status = statusDelayedValue
  /\ remote[wf.recs[3]].status = statusWaitingValue

\* position of a record in the approvals list
PosInApprovals(i) == CHOOSE k \in 1..Len(approvals) : approvals[k].id = i

\* C7: during a bulk action at most one PATCH is outstanding, and the requests
\* answered, outstanding and still to send follow the approvals-list order, so
\* a request for a later record is sent only when those of the earlier
\* records have succeeded
C7_Sequential ==
  (wf.kind = "bulk" /\ wf.pc = "patch") =>
    LET sent == IF wf.outstanding = {} THEN <<>>
                ELSE <<CHOOSE q \in wf.outstanding : TRUE>>
        reqs == wf.done \o sent \o wf.queue
    IN /\ Cardinality(wf.outstanding) <= 1
       /\ \A j, k \in 1..Len(reqs) :
            j < k => PosInApprovals(reqs[j].id) <= PosInApprovals(reqs[k].id)
       /\ \A q \in wf.outstanding : \A k \in 1..Len(wf.recs) :
            PosInApprovals(wf.recs[k]) < PosInApprovals(q.id) =>
              \E j \in 1..Len(wf.done) :
                wf.done[j].id = wf.recs[k] /\ wf.done[j].status # KEEP

\* C7 witness: of three selected records the first is patched, the PATCH of
\* the second is outstanding and the third is still to be sent
C7_Witness ==
  /\ wf.kind = "bulk" /\ wf.pc = "patch" /\ Len(wf.recs) = 3
  /\ Len(wf.done) = 1 /\ Cardinality(wf.outstanding) = 1 /\ Len(wf.queue) = 1

\* C8: when a Transfer (single or bulk) to a chosen employee has sent all its
\* requests with success, every record of it that was Rejected or Delayed
\* before is Waiting on the remote store, with both reasons null and the
\* chosen employee as assignee
C8_TransferResets ==
  (wf.action = "TRANSFER" /\ wf.kind \in {"transfer", "bulk"} /\ wf.arg # ""
     /\ wf.pc \in {"fetch_approvals", "fetch_maps"}) =>
    \A i \in Range(wf.recs) :
      (IsRejected(wf.before[i].status) \/ IsDelayed(wf.before[i].status)) =>
        /\ remote[i].status = statusWaitingValue
        /\ remote[i].rej = NULL
        /\ remote[i].del = NULL
        /\ remote[i].assignee = wf.arg

\* C8 witness: the single Transfer of a Rejected approval to u2 has just sent
\* its last request
C8_Witness ==
  /\ wf.kind = "transfer" /\ wf.pc = "fetch_approvals" /\ wf.arg = "u2"
  /\ \E i \in Range(wf.recs) :
       /\ IsRejected(wf.before[i].status) /\ wf.before[i].rej = "r"
       /\ remote[i].status = statusWaitingValue /\ remote[i].assignee = "u2"

\* the status an action writes
ActionStatus(a) ==
  CASE a = "APPROVE" -> statusSignedValue
    [] a = "REJECT" -> statusRejectedValue
    [] a = "DELAY" -> statusDelayedValue
    [] a = "TRANSFER" -> statusWaitingValue
    [] OTHER -> "none"

\* C9 (as amended): every status change on the remote store is written by the
\* running single or bulk action to one of its records, and the new status is
\* the one of the action (Approve: Signed, Reject: Rejected, Delay: Delayed,
\* Transfer: Waiting), whatever the status was before
C9_StatusOfAction ==
  [][\A i \in DOMAIN remote :
       remote'[i].status # remote[i].status =>
         /\ wf.pc = "patch"
         /\ i \in Range(wf.recs)
         /\ remote'[i].status = ActionStatus(wf.action)]_vars

\* C9 (as stated): every status change is Waiting to Signed, Rejected or
\* Delayed, or Waiting, Rejected or Delayed to Waiting by a Transfer
C9_OnlyListedTransitions ==
  [][\A i \in DOMAIN remote :
       remote'[i].status # remote[i].status =>
         \/ /\ IsWaiting(remote[i].status)
            /\ remote'[i].status \in
                 {statusSignedValue, statusRejectedValue, statusDelayedValue}
         \/ /\ IsWaiting(remote[i].status) \/ IsRejected(remote[i].status)
                 \/ IsDelayed(remote[i].status)
            /\ remote'[i].status = statusWaitingValue
            /\ wf.action = "TRANSFER"]_vars

\* C9 witness: an Approve has turned a Rejected approval into a Signed one
C9_Witness ==
  /\ wf.action = "APPROVE" /\ wf.pc = "fetch_approvals"
  /\ \E i \in Range(wf.recs) :
       IsRejected(wf.before[i].status) /\ remote[i].status = statusSignedValue

\* C10: a PATCH that sets the status Signed is outstanding only in a handler
\* that was given a captured signature
C10_SignatureCaptured ==
  \A req \in wf.outstanding : req.status = statusSignedValue => wf.sig

\* C11: the employee a Transfer PATCH assigns belongs to the department of
\* the record it is sent for and is not the user who runs the transfer
C11_DestinationOfDepartment ==
  \A req \in wf.outstanding :
    req.assignee # KEEP =>
      /\ req.assignee \in fetchEmployeesByDepartment(remote[req.id].department)
      /\ req.assignee # wf.user

\* the login attempt in flight is answered in this step
LoginAnswered == wf.pc = "login" /\ wf'.pc # "login"

\* the step signs the user of the attempt in and starts the load
LoginSucceeds ==
  /\ user' = wf.arg[1] /\ view' = "LIST"
  /\ wf'.pc = "fetch_approvals" /\ wf'.user = wf.arg[1]

\* the step shows an error and changes nothing else
LoginRefused ==
  /\ loginError' # "" /\ user' = NULL /\ view' = "LOGIN"
  /\ wf'.pc = "idle" /\ approvals' = approvals

\* C12 (as amended): a login succeeds only if an employee record matches the
\* entered email and that record stores no password or the entered password
\* equals the stored one; in every other case an error is shown, the user
\* stays null, the view stays LOGIN and no load is started
C12_LoginChecked ==
  [][LoginAnswered =>
       LET email == wf.arg[1]
           pw == wf.arg[2]
           known == email \in Users
       IN /\ LoginSucceeds \/ LoginRefused
          /\ LoginSucceeds => known /\ (Password[email] = "" \/ Password[email] = pw)
          /\ (~known \/ (Password[email] # "" /\ Password[email] # pw)) => LoginRefused]_vars

\* C12 (as stated): a login succeeds only if an employee record matches the
\* entered email and the entered password equals the stored one
C12_PasswordEqual ==
  [][(LoginAnswered /\ LoginSucceeds) =>
       wf.arg[1] \in Users /\ Password[wf.arg[1]] = wf.arg[2]]_vars

\* C12 witness: u2, whose record stores no password, is signed in with the
\* password pw1 and the load of the approvals has started
C12_Witness ==
  /\ wf.kind = "login" /\ wf.pc = "fetch_approvals" /\ wf.arg = <<"u2", "pw1">>
  /\ user = "u2" /\ view = "LIST" /\ loginError = ""

\* C13: the busy flag is true as long as a load or a mutation is outstanding
C13_BusyWhileOutstanding == wf.pc # "idle" => loading


\* C14: a handler that has set the busy flag always comes to its end, whether
\* its requests succeed or fail, and whenever no handler is in flight the busy
\* flag is false
C14_BusyCleared ==
  /\ [](wf.pc = "idle" => ~loading)
  /\ (wf.pc # "idle") ~> (wf.pc = "idle" /\ ~loading)

\* a bulk action has ended on a failed PATCH and the busy flag is clear
C14_Witness ==
  /\ wf.pc = "idle" /\ wf.kind = "bulk" /\ wf.outcome = "failed" /\ wf.alerts = 1
  /\ ~loading

\* the handlers that PATCH approvals
Mutating == wf.kind \in {"action", "transfer", "bulk"}

\* C15: in a single or bulk action the reload starts at the answer to the
\* last PATCH, with every request of the handler committed; the PATCH phase
\* ends without a reload only on a failed PATCH, which leaves the list, the
\* view and the selection as they are; and the handler returns to the list or
\* clears the selection only out of the reload
C15_ReloadAfterLastPatch ==
  [][Mutating =>
       /\ (wf.pc = "patch" /\ wf'.pc = "fetch_approvals") =>
            /\ wf.queue = <<>> /\ Cardinality(wf.outstanding) = 1
            /\ Len(wf'.done) = Len(wf.done) + 1
            /\ \A req \in wf.outstanding : remote' = Apply(remote, req)
       /\ (wf.pc = "patch" /\ wf'.pc = "idle") =>
            /\ wf'.outcome = "failed"
            /\ remote' = remote
            /\ UNCHANGED <<approvals, view, selectedApproval, selectedIds, bulkAction>>
       /\ (wf.pc # "idle" /\ wf'.pc = "idle" /\ wf'.outcome = "ok") =>
            wf.pc \in {"fetch_approvals", "fetch_maps"}]_vars

\* a reason field that holds a text
NonEmpty(x) == x \notin {NULL, ""}

\* the reason fields of a record agree with its status
ConsistentReasons(r) ==
  /\ ~(NonEmpty(r.rej) /\ NonEmpty(r.del))
  /\ NonEmpty(r.rej) => IsRejected(r.status)
  /\ NonEmpty(r.del) => IsDelayed(r.status)

\* the reason fields of a status PATCH agree with the status it sets
ConsistentPatch(req) ==
  /\ req.status \in {statusSignedValue, statusWaitingValue} =>
       req.rej = NULL /\ req.del = NULL
  /\ req.status = statusRejectedValue => req.rej \in ReasonTexts /\ req.del = NULL
  /\ req.status = statusDelayedValue => req.del \in ReasonTexts /\ req.rej = NULL

\* C16: every status PATCH sets the reason fields that go with its status
\* (Rejected and Delayed with the text entered when the action was confirmed),
\* and every record of the store keeps consistent reasons: never both, never
\* the reason of a status it does not have
C16_ReasonsConsistent ==
  /\ [](\A i \in DOMAIN remote : ConsistentReasons(remote[i]))
  /\ [](\A req \in wf.outstanding \cup Range(wf.queue) :
          req.status # KEEP => ConsistentPatch(req))
  /\ [][(wf.pc = "idle" /\ wf'.pc = "patch") =>
          \A req \in wf'.outstanding \cup Range(wf'.queue) :
            /\ req.status = statusRejectedValue => req.rej = reasonText
            /\ req.status = statusDelayedValue => req.del = reasonText]_vars

\* a record rejected with a reason has been delayed: its delay reason is the
\* entered text and its rejection reason is gone
C16_Witness ==
  /\ remote["a2"].status = statusDelayedValue
  /\ remote["a2"].del = "r" /\ remote["a2"].rej = NULL

\* C17: no Reject or Delay PATCH goes out with an empty reason and no
\* assignee PATCH without a destination, and a confirm is never taken in a
\* form that lacks its input: a Reject or Delay form with an empty reason, a
\* Transfer form with no destination chosen
C17_InvalidNeverSubmitted ==
  /\ [](\A req \in wf.outstanding \cup Range(wf.queue) :
          /\ req.status = statusRejectedValue => NonEmpty(req.rej)
          /\ req.status = statusDelayedValue => NonEmpty(req.del)
          /\ req.assignee # KEEP => req.assignee \in Users)
  /\ [][(wf.pc = "idle" /\ wf'.pc # "idle" /\ wf'.kind \in {"action", "transfer", "bulk"}) =>
          /\ wf'.action \in {"REJECT", "DELAY"} => reasonText # ""
          /\ wf'.action = "TRANSFER" => selectedTransferUser # ""]_vars

\* an order value that is absent or holds no digit
Unnumbered(val) == val.t # "number" /\ Match(StringOf(val)) = <<>>

\* a chain as it is shown: ascending by the extracted number, the
\* unnumbered approvals carrying the sentinel and standing behind all others
ShownInOrder(chain) ==
  \A j, k \in 1..Len(chain) :
    /\ Unnumbered(chain[j].order) => extractOrderNumber(chain[j].order) = NoOrder
    /\ j < k =>
         /\ extractOrderNumber(chain[j].order) <= extractOrderNumber(chain[k].order)
         /\ ~(Unnumbered(chain[j].order) /\ ~Unnumbered(chain[k].order))

\* C18: the sibling chain of the detail view and the chain of every list
\* card are in ascending order of the extracted number, with the approvals
\* that have no number behind all numbered ones
C18_ChainInOrder ==
  /\ ShownInOrder(paymentApprovals)
  /\ \A r \in Range(approvals) : ShownInOrder(sortedRelated(approvalsMap, PaymentLink[r.id]))

\* the contract a list card shows for an approval
contractRec(r) == MapGet(contractsMap, r.contractLink, NoContract)
\* the list is on screen with its load finished
ListShown == view = "LIST" /\ user # NULL /\ wf.pc = "idle"
\* the detail view is on screen with its fetches finished
DetailShown == view = "DETAIL" /\ wf.pc = "idle" /\ selectedApproval.id # NULL

\* C19: a contract whose RecID is an approval's contract link, while its
\* record id is not, is the contract of that approval on its list card and
\* in its detail view.
C19_RecIdResolved ==
  \A c \in Range(contracts) :
    /\ ListShown =>
         \A r \in Range(approvals) :
           (r.contractLink # "" /\ c.recId = r.contractLink /\ c.id # r.contractLink)
              => contractRec(r) = c
    /\ DetailShown =>
         ((/\ selectedApproval.contractLink # ""
           /\ c.recId = selectedApproval.contractLink
           /\ c.id # selectedApproval.contractLink)
            => linkedContract = c)

\* C20: whether the contract link stores a record id or a RecID, the detail
\* view resolves the contract that refers to, and it is the same contract
\* the list card of the approval shows.
C20_SameContractBothPaths ==
  DetailShown =>
    /\ linkedContract = contractRec(selectedApproval)
    /\ \A c \in Range(contracts) :
         selectedApproval.contractLink \in {c.id, c.recId} \ {""} => linkedContract # NoContract

\* the requests of the handler in flight that write record i and are not
\* committed yet
Uncommitted(i) == {req \in wf.outstanding \cup Range(wf.queue) : req.id = i}

\* C22: the write of one record is one PATCH: when a request of a mutation
\* handler fails, no record has some of the handler's requests committed and
\* others not, and no record is left with a new assignee but without the
\* status and reason reset of its transfer.
C22_OnePatchPerRecord ==
  [][(Mutating /\ wf.pc = "patch" /\ wf'.pc = "idle" /\ wf'.outcome = "failed") =>
       \A i \in DOMAIN remote :
         /\ (\E req \in Range(wf.done) : req.id = i) => Uncommitted(i) = {}
         /\ remote'[i].assignee # wf.before[i].assignee =>
              /\ remote'[i].status = statusWaitingValue
              /\ remote'[i].rej = NULL
              /\ remote'[i].del = NULL]_vars

\* C27: the detail view is entered with no action armed, an empty reason and
\* no transfer target chosen.
C27_NothingArmedOnEntry ==
  [][(view # "DETAIL" /\ view' = "DETAIL") =>
       /\ activeAction' = NULL
       /\ reasonText' = ""
       /\ selectedTransferUser' = ""]_vars

\* the detail view as the load of the selected approval has left it
JustOpened == view = "DETAIL" /\ wf.pc = "idle" /\ wf.kind = "open"

\* what the detail load shows of its fetches: nothing of a failed one, the
\* fetched data of the others
ShowsWhatSucceeded ==
  LET pid == PaymentLink[selectedApproval.id]
  IN /\ "payment" \in failedFetches => linkedPayment = NoPayment
     /\ "contract" \in failedFetches => linkedContract = NoContract
     /\ "chain" \in failedFetches => paymentApprovals = <<>>
     /\ "milestones" \in failedFetches => availableMilestones = <<>>
     /\ "related" \in failedFetches => relatedPayments = <<>>
     /\ pid # "" =>
          /\ "payment" \notin failedFetches =>
               linkedPayment = fetchPaymentDetails(payments, pid)
          /\ "contract" \notin failedFetches =>
               linkedContract = fetchContract(contracts, selectedApproval.contractLink)
          /\ "chain" \notin failedFetches =>
               paymentApprovals = fetchApprovalsByPaymentID(remote, pid)
          /\ (linkedContract # NoContract /\ "milestones" \notin failedFetches) =>
               availableMilestones \in SortOutcomes(fetchTableRecords(milestones, linkedContract))

MilestoneUpdated ==
  /\ wf'.kind = "milestone" /\ wf'.pc = "idle" /\ wf'.outcome = "ok"
  /\ wf.pc = "milestone" \/ wf'.n # wf.n

\* C25: a milestone update that succeeds leaves the chosen milestone's link
\* on the payment record of the approval, its number, section and text on
\* the local payment and approval and on the approval's entry of the list;
\* one whose write fails changes none of them.
C25_MilestoneAssigned ==
  [][/\ MilestoneUpdated =>
          LET chosen == IF wf.pc = "milestone" THEN wf.arg.milestone ELSE selectedMilestoneId
              values == IF wf.pc = "milestone" THEN wf.arg.values
                        ELSE Resolved(FindMilestone(availableMilestones, chosen))
              id == wf'.recs[1]
          IN /\ payments'[PaymentLink[id]].milestoneLink = chosen
             /\ selectedApproval.id = id =>
                  /\ linkedPayment'.milestoneLink = chosen
                  /\ linkedPayment'.milestone = values
                  /\ selectedApproval'.milestone = values
             /\ \A k \in 1..Len(approvals') :
                  approvals'[k].id = id => approvals'[k].milestone = values
     /\ (wf.pc = "milestone" /\ wf'.outcome = "failed") =>
          UNCHANGED <<payments, linkedPayment, selectedApproval, approvals>>]_vars

\* the references by which records may name a contract
RefsOf(contract) == {contract.id, contract.recId} \ {NULL, ""}

\* C28: with no operation outstanding, the payment, contract, chain, related
\* payments and milestone candidates of the detail view are those of the
\* selected approval, and a milestone update writes to the payment of the
\* approval it was started for only.
C28_DetailBelongsToSelected ==
  /\ [](DetailShown =>
          LET pid == PaymentLink[selectedApproval.id]
              contract == fetchContract(contracts, selectedApproval.contractLink)
          IN /\ linkedPayment = NoPayment \/ linkedPayment.id = pid
             /\ linkedContract \in {NoContract, contract}
             /\ \A a \in Range(paymentApprovals) : PaymentLink[a.id] = pid
             /\ \/ relatedPayments = <<>>
                \/ /\ pid \in DOMAIN payments
                   /\ relatedPayments = fetchRelatedPayments(payments, payments[pid].project,
                                                             payments[pid].supplier)
             /\ \A m \in Range(availableMilestones) : m.contract \in RefsOf(contract))
  /\ [][\A pid \in DOMAIN payments :
          payments'[pid] # payments[pid] =>
             (wf.pc = "milestone" /\ pid = PaymentLink[wf.recs[1]])]_vars

\* C29: updateMilestone sends its write only with a milestone id that is one
\* of the candidates loaded for the contract of the open approval.
C29_MilestoneFromCandidates ==
  [][(wf'.kind = "milestone" /\ wf'.n = wf.n + 1 /\ wf'.pc = "milestone") =>
       \E m \in Range(availableMilestones) :
         /\ m.id = selectedMilestoneId
         /\ m.contract \in RefsOf(fetchContract(contracts, selectedApproval.contractLink))]_vars

\* a step with which a load started by a login or a refresh ends well
LoadSucceeded ==
  /\ wf.pc \in {"fetch_approvals", "fetch_maps"}
  /\ wf'.pc = "idle" /\ wf'.kind \in {"login", "refresh"} /\ wf'.outcome = "ok"

\* C21: with nobody signed in and nothing outstanding the local copies hold
\* no records of the session that ended, and after a load that succeeded the
\* approvals and both maps hold what that load returned and nothing else.
C21_NoStaleMirrors ==
  /\ []((user = NULL /\ wf.pc = "idle") =>
          /\ approvals = <<>>
          /\ approvalsMap = EmptyMap /\ contractsMap = EmptyMap
          /\ selectedApproval = NoApproval /\ selectedIds = {})
  /\ [][LoadSucceeded =>
          LET data == fetchUserApprovals(remote, wf.user)
          IN /\ approvals' = data
             /\ approvalsMap' \in
                  {EmptyMap,
                   GroupByPayment(fetchApprovalsByPaymentIDs(remote, PaymentIdsOf(data)))}
             /\ contractsMap' \in
                  {EmptyMap,
                   ContractsMapOf(fetchContractsByIds(contracts, ContractIdsOf(data)))}]_vars

\* C30: with a user signed in and no load outstanding, the records of the
\* approvals list were returned by a load issued for that user.
C30_ApprovalsOfSignedInUser ==
  (user # NULL /\ wf.pc = "idle" /\ approvals # <<>>) => loadedFor = user

\* the value of an ordering field that holds a number or a string of digits
ParsesAsNumber(val) ==
  \/ val.t = "number"
  \/ val.t = "string" /\ ~parseFloat(val.s).nan

\* the number a milestone is to be ordered by: that of the first ordering
\* field that is not empty (an absent field, "" and 0 are empty), the
\* sentinel when that field is no number
OrderingNumber(r) ==
  LET filled == SelectSeq(<<r.num, r.sec, r.secNum>>, Truthy)
      v == IF filled = <<>> THEN Undef ELSE Head(filled)
  IN IF ~ParsesAsNumber(v) THEN NoNumber
     ELSE IF v.t = "number" THEN v.n
     ELSE parseFloat(v.s).n

\* C26: the milestone candidates of the detail view are in ascending order
\* of the first non-empty ordering field, a record without a field that
\* parses as a number counting as 999999.
C26_MilestonesAscending ==
  \A j, k \in 1..Len(availableMilestones) :
    j < k => OrderingNumber(availableMilestones[j]) <= OrderingNumber(availableMilestones[k])

\* C23: an id-list fetch of several chunks of which one request failed has
\* returned with an error and without records.
C23_ChunkFailureFailsCall ==
  (idFetch.pc = "returned" /\ Len(ChunksOf(idFetch.ids, chunkSize(idFetch.fn))) > 1
     /\ idFetch.failed)
    => (idFetch.error /\ idFetch.allRecords = <<>>)

====
